---- MODULE Spec2Model ----
(***************************************************************************)
(* Lite3-JS: a B-tree of keyed entries embedded in one growable byte       *)
(* buffer.  The model keeps the buffer at byte level: a sequence of bytes  *)
(* whose length is the capacity (buffer[o+1] is the byte at offset o), the *)
(* used length and the initialized flag of one handle.                     *)
(*                                                                         *)
(* Every mutating helper takes and returns a handle state                  *)
(*     [buf |-> bytes, len |-> used length, err |-> "ok" or an error]      *)
(* and is the identity once err is set, so that an operation is the        *)
(* sequential composition of its writes and an exception stops it half     *)
(* way, leaving the bytes written so far.                                  *)
(***************************************************************************)
EXTENDS Integers, Sequences, FiniteSets, TLC

VARIABLES buffer, buflen, initialized, nested, built, phase, last, ret, before, iter, other, spine

vars == <<buffer, buflen, initialized, nested, built, phase, last, ret, before, iter, other, spine>>

(***************************************************************************)
(* constants.js                                                            *)
(***************************************************************************)
TypeNULL == 0
TypeBOOL == 1
TypeI64 == 2
TypeF64 == 3
TypeBYTES == 4
TypeSTRING == 5
TypeOBJECT == 6
TypeARRAY == 7

NodeSIZE == 96
NodeALIGNMENT == 4
KEY_COUNT_MAX == 7
\* Faulty variant: a split leaves 2 keys on each side
KeyCountMinShort == KEY_COUNT_MAX \div 3

KEY_COUNT_MIN == 3
TREE_HEIGHT_MAX == 9
SIZE_KC_OFFSET == 32
VAL_SIZE == 1
DJB2_HASH_SEED == 5381
SIZE_SHIFT == 6
KEY_SIZE_SHIFT == 2

\* TypeSizes[type] || 0
TypeSizes(type) ==
    CASE type = TypeNULL -> 0
      [] type = TypeBOOL -> 1
      [] type = TypeI64 -> 8
      [] type = TypeF64 -> 8
      [] type = TypeBYTES -> 4
      [] type = TypeSTRING -> 4
      [] type = TypeOBJECT -> 95
      [] type = TypeARRAY -> 95
      [] OTHER -> 0

(***************************************************************************)
(* Arithmetic helpers                                                      *)
(***************************************************************************)
Pow2(n) == 2^n

Max(a, b) == IF a >= b THEN a ELSE b

Zeros(n) == [i \in 1..n |-> 0]

\* The marker a read returns where the JS read throws RangeError (DataView)
\* or yields undefined (typed-array index past the end).
OutOfRange == 0 - 1

OK(s) == s.err = "ok"

Fail(s, code) == IF OK(s) THEN [s EXCEPT !.err = code] ELSE s

(***************************************************************************)
(* buffer-utils.js                                                         *)
(***************************************************************************)
\* buffer[offset]: undefined past the end of the typed array
byteAt(buf, offset) ==
    IF offset >= 0 /\ offset < Len(buf) THEN buf[offset + 1] ELSE OutOfRange

\* buffer[offset] = value: silently ignored past the end of the typed array
writeByte(s, offset, value) ==
    IF ~OK(s) THEN s
    ELSE IF offset >= 0 /\ offset < Len(s.buf)
         THEN [s EXCEPT !.buf = [@ EXCEPT ![offset + 1] = value % 256]]
         ELSE s

\* DataView.getUint32(offset, true): RangeError past the end.  A word of
\* 2^31 or more is read as 2^31 - 1: every hash, offset and length the model
\* writes is smaller, so the word still compares above all of them and still
\* addresses no byte of the buffer.
readUint32(buf, offset) ==
    IF offset >= 0 /\ offset + 4 <= Len(buf)
    THEN IF buf[offset + 4] >= 128 THEN 2147483647
         ELSE buf[offset + 1] + 256 * buf[offset + 2] + 65536 * buf[offset + 3]
              + 16777216 * buf[offset + 4]
    ELSE OutOfRange

\* DataView.setUint32(offset, value >>> 0, true): RangeError past the end
writeUint32(s, offset, value) ==
    IF ~OK(s) THEN s
    ELSE IF offset >= 0 /\ offset + 4 <= Len(s.buf)
         THEN [s EXCEPT !.buf = [@ EXCEPT ![offset + 1] = value % 256,
                                          ![offset + 2] = (value \div 256) % 256,
                                          ![offset + 3] = (value \div 65536) % 256,
                                          ![offset + 4] = (value \div 16777216) % 256]]
         ELSE Fail(s, "RangeError")

\* The eight little-endian two's-complement bytes of a 64-bit integer
\* (the model's integers are below 2^31 in magnitude).
Int64Bytes(value) ==
    [i \in 1..8 |-> IF i <= 4 THEN (value \div (IF i = 1 THEN 1 ELSE IF i = 2 THEN 256
                                                ELSE IF i = 3 THEN 65536 ELSE 16777216)) % 256
                    ELSE IF value < 0 THEN 255 ELSE 0]

\* whether eight bytes hold a 64-bit integer below 2^31 in magnitude
Int64Fits(bytes) ==
    \/ bytes[4] < 128 /\ \A i \in 5..8 : bytes[i] = 0
    \/ bytes[4] >= 128 /\ \A i \in 5..8 : bytes[i] = 255

\* The inverse of Int64Bytes where Int64Fits
Int64Value(bytes) ==
    IF bytes[4] < 128
    THEN bytes[1] + 256 * bytes[2] + 65536 * bytes[3] + 16777216 * bytes[4]
    ELSE (bytes[1] + 256 * bytes[2] + 65536 * bytes[3] + 16777216 * (bytes[4] - 128))
         - 2147483647 - 1

\* writes n bytes through a DataView: RangeError past the end
writeView(s, offset, bytes) ==
    IF ~OK(s) THEN s
    ELSE IF offset >= 0 /\ offset + Len(bytes) <= Len(s.buf)
         THEN [s EXCEPT !.buf = [i \in 1..Len(@) |->
                  IF i - 1 >= offset /\ i - 1 < offset + Len(bytes)
                  THEN bytes[i - offset] ELSE @[i]]]
         ELSE Fail(s, "RangeError")

\* BigInt(value) of a number that is an integer, or of a BigInt: its eight
\* two's-complement bytes
toBigInt(value) == IF value[1] = "int" THEN Int64Bytes(value[2]) ELSE value[2]

\* view.setBigInt64(offset, BigInt(value), true)
writeInt64(s, offset, value) == writeView(s, offset, toBigInt(value))

\* 9007199254740991n and -9007199254740991n
MaxSafeInteger == <<255, 255, 255, 255, 255, 255, 31, 0>>
MinSafeInteger == <<1, 0, 0, 0, 0, 0, 224, 255>>

\* the bytes of a 64-bit integer from the most significant down, the sign
\* bit inverted, so that the order of integers is the order of these sequences
I64Rank(bytes) == [i \in 1..8 |-> IF i = 1 THEN (bytes[8] + 128) % 256 ELSE bytes[9 - i]]

RECURSIVE LexLess(_, _)
LexLess(a, b) ==
    IF a = <<>> THEN FALSE
    ELSE IF Head(a) # Head(b) THEN Head(a) < Head(b)
    ELSE LexLess(Tail(a), Tail(b))

\* Faulty variant: a strict comparison
I64Less(a, b) == LexLess(I64Rank(a), I64Rank(b))

\* a <= b on BigInts
I64Leq(a, b) == a = b \/ LexLess(I64Rank(a), I64Rank(b))

\* Number(val) of a BigInt that is a safe integer
toNumber(bytes) == IF Int64Fits(bytes) THEN <<"int", Int64Value(bytes)>> ELSE <<"int64", bytes>>

\* A double is carried as its eight IEEE-754 bytes.
writeFloat64(s, offset, bits) == writeView(s, offset, bits)

\* whether a DataView access of n bytes at offset is inside the buffer
InRange(buf, offset, n) == offset >= 0 /\ offset + n <= Len(buf)

\* the n bytes at offset, where InRange
readView(buf, offset, n) == [i \in 1..n |-> buf[offset + i]]

\* (offset + mask) & ~mask with mask = alignment - 1
alignOffset(offset, alignment) ==
    ((offset + (alignment - 1)) \div alignment) * alignment

\* dest[destOffset + i] = src[i] for the bytes of src; writes past the end of
\* dest are ignored
copyBytes(s, destOffset, src) ==
    IF ~OK(s) THEN s
    ELSE [s EXCEPT !.buf = [i \in 1..Len(@) |->
             IF i - 1 >= destOffset /\ i - 1 < destOffset + Len(src)
             THEN src[i - destOffset] ELSE @[i]]]

\* the length bytes of the buffer at offset as copyBytes reads them
\* (undefined reads are stored as 0)
sliceBytes(buf, offset, length) ==
    [i \in 1..length |-> IF byteAt(buf, offset + i - 1) = OutOfRange THEN 0
                         ELSE byteAt(buf, offset + i - 1)]

\* TextEncoder.encode on a sequence of UTF-16 code units below 0x800
encodeOne(c) == IF c < 128 THEN <<c>> ELSE <<192 + (c \div 64), 128 + (c % 64)>>

\* (the string is encoded by halves to keep the evaluation shallow)
RECURSIVE encodeString(_)
encodeString(str) ==
    IF str = <<>> THEN <<>>
    ELSE IF Len(str) = 1 THEN encodeOne(str[1])
    ELSE encodeString(SubSeq(str, 1, Len(str) \div 2))
         \o encodeString(SubSeq(str, (Len(str) \div 2) + 1, Len(str)))

\* TextDecoder.decode of well-formed one- and two-byte sequences; a byte that
\* starts no such sequence decodes to U+FFFD
RECURSIVE decodeBytes(_)
decodeBytes(bytes) ==
    IF bytes = <<>> THEN <<>>
    ELSE IF bytes[1] < 128 THEN <<bytes[1]>> \o decodeBytes(Tail(bytes))
    ELSE IF bytes[1] >= 194 /\ bytes[1] < 224 /\ Len(bytes) >= 2
            /\ bytes[2] >= 128 /\ bytes[2] < 192
         THEN <<(bytes[1] - 192) * 64 + (bytes[2] - 128)>> \o decodeBytes(Tail(Tail(bytes)))
    ELSE <<65533>> \o decodeBytes(Tail(bytes))

\* bytes.subarray(offset, offset + length) decoded; subarray clamps to the array
decodeString(buf, offset, length) ==
    LET from == IF offset > Len(buf) THEN Len(buf) ELSE offset
        to == IF offset + length > Len(buf) THEN Len(buf) ELSE offset + length
    IN  decodeBytes([i \in 1..Max(to - from, 0) |-> buf[from + i]])

(***************************************************************************)
(* hash.js                                                                 *)
(***************************************************************************)
\* A 32-bit hash in the making is held as its two 16-bit halves hi and lo.
\* hash = ((hash << 5) + hash + charCode) >>> 0
djb2Step(hash, charCode) ==
    [hi |-> (hash.hi * 33 + ((hash.lo * 33 + charCode) \div 65536)) % 65536,
     lo |-> (hash.lo * 33 + charCode) % 65536]

\* for (i = 0; i < key.length; i++) { charCode = key.charCodeAt(i) & 0xFF; ... }
\* (the loop is run over the first half of the key, then from the hash h that
\* gives over the second half, to keep the evaluation shallow)
RECURSIVE djb2From(_, _)
djb2From(hash, key) ==
    IF key = <<>> THEN hash
    ELSE IF Len(key) = 1 THEN djb2Step(hash, key[1] % 256)
    ELSE CHOOSE r \in {djb2From(h, SubSeq(key, (Len(key) \div 2) + 1, Len(key))) :
                          h \in {djb2From(hash, SubSeq(key, 1, Len(key) \div 2))}} : TRUE

\* djb2Hash(key) as halves
djb2Hash32(key) ==
    djb2From([hi |-> DJB2_HASH_SEED \div 65536, lo |-> DJB2_HASH_SEED % 65536], key)

\* djb2Hash(key) as a number, for the keys whose hash is below 2^31
djb2Hash(key) == djb2Hash32(key).hi * 65536 + djb2Hash32(key).lo

getKeyData(key) == [hash |-> djb2Hash(key), size |-> Len(encodeString(key)) + 1]

getKeyTagSize(keySize) ==
    IF keySize > 4194303 THEN 4
    ELSE IF keySize > 16383 THEN 3
    ELSE IF keySize > 63 THEN 2
    ELSE 1

(***************************************************************************)
(* node.js: accessors of the 96-byte node                                  *)
(***************************************************************************)
\* genType & TYPE_MASK
getNodeType(buf, offset) ==
    IF readUint32(buf, offset) = OutOfRange THEN OutOfRange ELSE buf[offset + 1]

\* genType >>> GEN_SHIFT
getNodeGeneration(buf, offset) ==
    IF readUint32(buf, offset) = OutOfRange THEN OutOfRange
    ELSE buf[offset + 2] + 256 * buf[offset + 3] + 65536 * buf[offset + 4]

\* writeUint32(buffer, offset, (gen << GEN_SHIFT) | type), byte by byte: the
\* type stays in byte 0 and the low 24 bits of gen fill bytes 1..3
setNodeGeneration(s, offset, gen) ==
    IF ~OK(s) THEN s
    ELSE IF readUint32(s.buf, offset) = OutOfRange THEN Fail(s, "RangeError")
    ELSE [s EXCEPT !.buf = [@ EXCEPT ![offset + 2] = gen % 256,
                                     ![offset + 3] = (gen \div 256) % 256,
                                     ![offset + 4] = (gen \div 65536) % 256]]

\* (gen + 1) & 0xFFFFFF
incrementGeneration(s, offset) ==
    IF ~OK(s) THEN s
    ELSE IF readUint32(s.buf, offset) = OutOfRange THEN Fail(s, "RangeError")
    ELSE setNodeGeneration(s, offset, (getNodeGeneration(s.buf, offset) + 1) % 16777216)

\* sizeKc & KEY_COUNT_MASK
getNodeKeyCount(buf, offset) ==
    IF readUint32(buf, offset + SIZE_KC_OFFSET) = OutOfRange THEN OutOfRange
    ELSE buf[offset + SIZE_KC_OFFSET + 1] % 8

\* (sizeKc & ~KEY_COUNT_MASK) | (count & KEY_COUNT_MASK)
setNodeKeyCount(s, offset, count) ==
    IF ~OK(s) THEN s
    ELSE IF readUint32(s.buf, offset + SIZE_KC_OFFSET) = OutOfRange THEN Fail(s, "RangeError")
    ELSE LET low == s.buf[offset + SIZE_KC_OFFSET + 1]
         IN  writeByte(s, offset + SIZE_KC_OFFSET, (low - (low % 8)) + (count % 8))

\* sizeKc >>> SIZE_SHIFT
getNodeSize(buf, offset) ==
    IF readUint32(buf, offset + SIZE_KC_OFFSET) = OutOfRange THEN OutOfRange
    ELSE (buf[offset + SIZE_KC_OFFSET + 1] \div Pow2(SIZE_SHIFT))
         + 4 * buf[offset + SIZE_KC_OFFSET + 2]
         + 1024 * buf[offset + SIZE_KC_OFFSET + 3]
         + 262144 * buf[offset + SIZE_KC_OFFSET + 4]

\* (sizeKc & KEY_COUNT_MASK) | (size << SIZE_SHIFT)
setNodeSize(s, offset, size) ==
    IF ~OK(s) THEN s
    ELSE IF readUint32(s.buf, offset + SIZE_KC_OFFSET) = OutOfRange THEN Fail(s, "RangeError")
    ELSE LET low == s.buf[offset + SIZE_KC_OFFSET + 1]
         IN  writeView(s, offset + SIZE_KC_OFFSET,
                 <<(low % 8) + (size % 4) * Pow2(SIZE_SHIFT), (size \div 4) % 256,
                   (size \div 1024) % 256, (size \div 262144) % 256>>)

incrementNodeSize(s, offset) ==
    IF ~OK(s) THEN s
    ELSE IF getNodeSize(s.buf, offset) = OutOfRange THEN Fail(s, "RangeError")
    ELSE setNodeSize(s, offset, getNodeSize(s.buf, offset) + 1)

getNodeHash(buf, offset, index) == readUint32(buf, offset + 4 + index * 4)

setNodeHash(s, offset, index, hash) == writeUint32(s, offset + 4 + index * 4, hash)

getNodeKvOffset(buf, offset, index) == readUint32(buf, offset + 36 + index * 4)

setNodeKvOffset(s, offset, index, kvOffset) == writeUint32(s, offset + 36 + index * 4, kvOffset)

getNodeChildOffset(buf, offset, index) == readUint32(buf, offset + 64 + index * 4)

setNodeChildOffset(s, offset, index, childOffset) ==
    writeUint32(s, offset + 64 + index * 4, childOffset)

\* getNodeChildOffset(buffer, offset, 0) !== 0
hasChildren(buf, offset) == getNodeChildOffset(buf, offset, 0) # 0

\* Faulty variant: only gen_type is written, size_kc and the child offsets stay
initNodeTypeOnly(s, offset, type) == writeUint32(s, offset, type % 256)

\* writes gen_type, size_kc and the eight child offsets; hashes and kv_ofs keep
\* their bytes
initNode(s, offset, type) ==
    LET s1 == writeUint32(s, offset, type % 256)
        s2 == writeUint32(s1, offset + SIZE_KC_OFFSET, 0)
    IN  writeView(s2, offset + 64, Zeros(32))

\* set...(dst, get...(src)) on one 32-bit field: RangeError when either lies
\* past the end of the buffer
copyWord(s, dstOffset, srcOffset) ==
    IF ~OK(s) THEN s
    ELSE IF ~InRange(s.buf, srcOffset, 4) THEN Fail(s, "RangeError")
    ELSE writeView(s, dstOffset, readView(s.buf, srcOffset, 4))

\* Faulty variant: the hashes are not shifted
RECURSIVE shiftNodeEntriesRightNoHash(_, _, _, _)
shiftNodeEntriesRightNoHash(s, offset, fromIndex, keyCount) ==
    IF ~OK(s) \/ keyCount <= fromIndex THEN s
    ELSE LET j == keyCount
             s2 == copyWord(s, offset + 36 + j * 4, offset + 36 + (j - 1) * 4)
             s3 == copyWord(s2, offset + 64 + (j + 1) * 4, offset + 64 + j * 4)
         IN  shiftNodeEntriesRightNoHash(s3, offset, fromIndex, keyCount - 1)

\* for (j = keyCount; j > fromIndex; j--) { hash[j] = hash[j-1];
\*   kv[j] = kv[j-1]; child[j+1] = child[j] }
RECURSIVE shiftNodeEntriesRight(_, _, _, _)
shiftNodeEntriesRight(s, offset, fromIndex, keyCount) ==
    IF ~OK(s) \/ keyCount <= fromIndex THEN s
    ELSE LET j == keyCount
             s1 == copyWord(s, offset + 4 + j * 4, offset + 4 + (j - 1) * 4)
             s2 == copyWord(s1, offset + 36 + j * 4, offset + 36 + (j - 1) * 4)
             s3 == copyWord(s2, offset + 64 + (j + 1) * 4, offset + 64 + j * 4)
         IN  shiftNodeEntriesRight(s3, offset, fromIndex, keyCount - 1)

(***************************************************************************)
(* lite3.js: the buffer arena and the B-tree engine                        *)
(***************************************************************************)
Handle(buf, len, init) == [buf |-> buf, len |-> len, init |-> init, err |-> "ok"]

\* this._buflen = n, unless an exception has already left the operation
setLen(s, n) == IF OK(s) THEN [s EXCEPT !.len = n] ELSE s

\* grows the backing storage to max(required, 2 * capacity) and copies
ensureSpace(s, needed) ==
    LET required == s.len + needed
        newSize == Max(required, Len(s.buf) * 2)
    IN  IF ~OK(s) THEN s
        ELSE IF required > Len(s.buf)
        THEN [s EXCEPT !.buf = [i \in 1..newSize |-> IF i <= Len(@) THEN @[i] ELSE 0]]
        ELSE s

\* Copy right half to sibling: hashes, kv offsets and children j + 4 of the
\* node become those of slot j of the sibling, for j = 0..2, then child 7
\* becomes child 3
\* Faulty variant: the slot's kv offset is not copied to the sibling
copyRightSlotNoKv(s, siblingOffset, nodeOffset, j) ==
    copyWord(copyWord(s,
        siblingOffset + 4 + j * 4, nodeOffset + 4 + (j + KEY_COUNT_MIN + 1) * 4),
        siblingOffset + 64 + j * 4, nodeOffset + 64 + (j + KEY_COUNT_MIN + 1) * 4)

\* Faulty variant: the slot's hash is not copied to the sibling
copyRightSlotNoHash(s, siblingOffset, nodeOffset, j) ==
    copyWord(copyWord(s,
        siblingOffset + 36 + j * 4, nodeOffset + 36 + (j + KEY_COUNT_MIN + 1) * 4),
        siblingOffset + 64 + j * 4, nodeOffset + 64 + (j + KEY_COUNT_MIN + 1) * 4)

copyRightSlot(s, siblingOffset, nodeOffset, j) ==
    copyWord(copyWord(copyWord(s,
        siblingOffset + 4 + j * 4, nodeOffset + 4 + (j + KEY_COUNT_MIN + 1) * 4),
        siblingOffset + 36 + j * 4, nodeOffset + 36 + (j + KEY_COUNT_MIN + 1) * 4),
        siblingOffset + 64 + j * 4, nodeOffset + 64 + (j + KEY_COUNT_MIN + 1) * 4)

\* Faulty variant: child 7 is not copied to child 3 of the sibling
copyRightHalfNoLastChild(s, siblingOffset, nodeOffset) ==
    copyRightSlot(copyRightSlot(copyRightSlot(s, siblingOffset, nodeOffset, 0),
                                siblingOffset, nodeOffset, 1),
                  siblingOffset, nodeOffset, 2)

copyRightHalf(s, siblingOffset, nodeOffset) ==
    copyWord(
        copyRightSlot(copyRightSlot(copyRightSlot(s, siblingOffset, nodeOffset, 0),
                                    siblingOffset, nodeOffset, 1),
                      siblingOffset, nodeOffset, 2),
        siblingOffset + 64 + KEY_COUNT_MIN * 4, nodeOffset + 64 + KEY_COUNT_MAX * 4)

\* copyBytes(buffer, dstOffset, buffer, srcOffset, Node.SIZE)
copyNode(s, dstOffset, srcOffset) ==
    IF ~OK(s) THEN s ELSE copyBytes(s, dstOffset, sliceBytes(s.buf, srcOffset, NodeSIZE))

\* Faulty variant: the node is initialized as an object whatever the type of
\* the node at fromOffset
initNodeAsObject(s, offset, fromOffset) ==
    IF ~OK(s) THEN s ELSE initNode(s, offset, TypeOBJECT)

\* initNode(buffer, offset, getNodeType(buffer, fromOffset))
initNodeAs(s, offset, fromOffset) ==
    IF ~OK(s) THEN s
    ELSE IF getNodeType(s.buf, fromOffset) = OutOfRange THEN Fail(s, "RangeError")
    ELSE initNode(s, offset, getNodeType(s.buf, fromOffset))

\* _splitNode with parent === null.  The calls are nested in program order
\* from the innermost (first) to the outermost (last).
splitRoot(s, rootOffset) ==
    LET newNodeOffset == alignOffset(s.len, NodeALIGNMENT)
        siblingOffset == newNodeOffset + NodeSIZE
        \* Save the current size before splitting
        currentSize == getNodeSize(s.buf, rootOffset)
    IN  IF ~OK(s) THEN s
        ELSE IF currentSize = OutOfRange THEN Fail(setLen(s, newNodeOffset), "RangeError")
        ELSE
          setLen(
            \* Update original node
            setNodeKeyCount(
            setNodeKeyCount(
            \* Copy right half to sibling
            copyRightHalf(
            setNodeKeyCount(
            setNodeChildOffset(
            \* Move median to parent
            copyWord(
            copyWord(
            \* Create sibling
            initNodeAs(
            \* Restore the size to the new root
            setNodeSize(
            setNodeChildOffset(
            \* Initialize new root
            initNodeAs(
            \* Copy current root to new location
            copyNode(setLen(s, newNodeOffset), newNodeOffset, rootOffset),
            rootOffset, newNodeOffset),
            rootOffset, 0, newNodeOffset),
            rootOffset, currentSize),
            siblingOffset, newNodeOffset),
            rootOffset + 4, newNodeOffset + 4 + KEY_COUNT_MIN * 4),
            rootOffset + 36, newNodeOffset + 36 + KEY_COUNT_MIN * 4),
            rootOffset, 1, siblingOffset),
            rootOffset, 1),
            siblingOffset, newNodeOffset),
            siblingOffset, KEY_COUNT_MIN),
            newNodeOffset, KEY_COUNT_MIN),
          siblingOffset + NodeSIZE)

\* _splitNode with a parent, nested in the same way
splitInterior(s, nodeOffset, parent, parentIndex) ==
    LET siblingOffset == alignOffset(s.len, NodeALIGNMENT)
        parentKeyCount == getNodeKeyCount(s.buf, parent)
    IN  IF ~OK(s) THEN s
        ELSE IF parentKeyCount = OutOfRange THEN Fail(setLen(s, siblingOffset), "RangeError")
        ELSE
          setLen(
            \* Update original node
            setNodeKeyCount(
            setNodeKeyCount(
            \* Copy right half to sibling
            copyRightHalf(
            \* Create sibling
            initNodeAs(
            setNodeKeyCount(
            setNodeChildOffset(
            \* Move median to parent
            copyWord(
            copyWord(
            \* Shift parent entries
            shiftNodeEntriesRight(setLen(s, siblingOffset), parent, parentIndex,
                                  parentKeyCount),
            parent + 4 + parentIndex * 4, nodeOffset + 4 + KEY_COUNT_MIN * 4),
            parent + 36 + parentIndex * 4, nodeOffset + 36 + KEY_COUNT_MIN * 4),
            parent, parentIndex + 1, siblingOffset),
            parent, parentKeyCount + 1),
            siblingOffset, nodeOffset),
            siblingOffset, nodeOffset),
            siblingOffset, KEY_COUNT_MIN),
            nodeOffset, KEY_COUNT_MIN),
          siblingOffset + NodeSIZE)

NoParent == 0 - 1

splitNode(s, rootOffset, nodeOffset, parent, parentIndex) ==
    IF parent = NoParent THEN splitRoot(s, rootOffset)
    ELSE splitInterior(s, nodeOffset, parent, parentIndex)

\* the first i with i >= keyCount or hashes[i] >= hash
RECURSIVE scanNode(_, _, _, _, _)
scanNode(buf, nodeOffset, keyCount, hash, i) ==
    IF i < keyCount /\ getNodeHash(buf, nodeOffset, i) < hash
    THEN scanNode(buf, nodeOffset, keyCount, hash, i + 1)
    ELSE i

Found(s, nodeOffset, index, isNew) ==
    [s |-> s, nodeOffset |-> nodeOffset, index |-> index, isNew |-> isNew]

\* Insert here: shift, write the hash, bump the key count
insertHere(s, nodeOffset, i, keyCount, hash) ==
    Found(setNodeKeyCount(
              setNodeHash(shiftNodeEntriesRight(s, nodeOffset, i, keyCount),
                          nodeOffset, i, hash),
              nodeOffset, keyCount + 1),
          nodeOffset, i, TRUE)

\* Faulty variant: a full root that has children is not split
splitIfFullBelow(s, rootOffset, nodeOffset, parent, parentIndex) ==
    IF ~OK(s) THEN s
    ELSE IF getNodeKeyCount(s.buf, nodeOffset) = OutOfRange THEN Fail(s, "RangeError")
    ELSE IF getNodeKeyCount(s.buf, nodeOffset) = KEY_COUNT_MAX
            /\ (parent # NoParent \/ ~hasChildren(s.buf, nodeOffset))
         THEN splitNode(s, rootOffset, nodeOffset, parent, parentIndex)
    ELSE s

\* Check if node is full and needs split
splitIfFull(s, rootOffset, nodeOffset, parent, parentIndex) ==
    IF ~OK(s) THEN s
    ELSE IF getNodeKeyCount(s.buf, nodeOffset) = OutOfRange THEN Fail(s, "RangeError")
    ELSE IF getNodeKeyCount(s.buf, nodeOffset) = KEY_COUNT_MAX
         THEN splitNode(s, rootOffset, nodeOffset, parent, parentIndex)
    ELSE s

\* one iteration of the while (true) loop of _findOrInsertKey and the
\* iterations after it: findOrInsertLoop splits a full node, afterSplit
\* re-navigates, searchNode looks for the hash in the node and descends or
\* inserts
RECURSIVE findOrInsertLoop(_, _, _, _, _, _, _)
RECURSIVE afterSplit(_, _, _, _, _, _, _, _)
RECURSIVE searchNode(_, _, _, _, _)
findOrInsertLoop(s, rootOffset, hash, nodeOffset, parent, parentIndex, nodeWalks) ==
    afterSplit(splitIfFull(s, rootOffset, nodeOffset, parent, parentIndex),
               getNodeKeyCount(s.buf, nodeOffset) = KEY_COUNT_MAX,
               rootOffset, hash, nodeOffset, parent, parentIndex, nodeWalks)

afterSplit(s, wasSplit, rootOffset, hash, nodeOffset, parent, parentIndex, nodeWalks) ==
    IF ~OK(s) THEN Found(s, 0, 0, FALSE)
    \* Re-navigate after split
    ELSE IF ~wasSplit THEN searchNode(s, rootOffset, hash, nodeOffset, nodeWalks)
    ELSE IF parent = NoParent THEN searchNode(s, rootOffset, hash, rootOffset, nodeWalks)
    ELSE IF hash > getNodeHash(s.buf, parent, parentIndex)
         THEN searchNode(s, rootOffset, hash,
                         getNodeChildOffset(s.buf, parent, parentIndex + 1), nodeWalks)
    ELSE searchNode(s, rootOffset, hash, nodeOffset, nodeWalks)

searchNode(s, rootOffset, hash, nodeOffset, nodeWalks) ==
    LET keyCount == getNodeKeyCount(s.buf, nodeOffset)
        i == scanNode(s.buf, nodeOffset, keyCount, hash, 0)
        child == getNodeChildOffset(s.buf, nodeOffset, i)
    IN  IF keyCount = OutOfRange THEN Found(Fail(s, "RangeError"), 0, 0, FALSE)
        \* Check if key exists
        ELSE IF i < keyCount /\ getNodeHash(s.buf, nodeOffset, i) = hash
             THEN Found(s, nodeOffset, i, FALSE)
        ELSE IF getNodeChildOffset(s.buf, nodeOffset, 0) = OutOfRange
             THEN Found(Fail(s, "RangeError"), 0, 0, FALSE)
        ELSE IF hasChildren(s.buf, nodeOffset)
             THEN IF child = OutOfRange THEN Found(Fail(s, "RangeError"), 0, 0, FALSE)
                  ELSE IF nodeWalks + 1 > TREE_HEIGHT_MAX
                       THEN Found(Fail(s, "EBADMSG"), 0, 0, FALSE)
                  ELSE findOrInsertLoop(s, rootOffset, hash, child, nodeOffset, i,
                                        nodeWalks + 1)
        ELSE insertHere(s, nodeOffset, i, keyCount, hash)

findOrInsertKey(s, rootOffset, hash) ==
    IF ~OK(s) THEN Found(s, 0, 0, FALSE)
    ELSE findOrInsertLoop(s, rootOffset, hash, rootOffset, NoParent, 0, 0)

\* Faulty variant: the lookup scans the node it is given and never descends
findLoopNoDescent(buf, hash, nodeOffset, nodeWalks) ==
    LET keyCount == getNodeKeyCount(buf, nodeOffset)
        i == scanNode(buf, nodeOffset, keyCount, hash, 0)
    IN  IF keyCount # OutOfRange /\ i < keyCount /\ getNodeHash(buf, nodeOffset, i) = hash
        THEN [found |-> TRUE, nodeOffset |-> nodeOffset, index |-> i, err |-> "ok"]
        ELSE [found |-> FALSE, nodeOffset |-> 0, index |-> 0, err |-> "ok"]

\* _findKey: [nodeOffset, index] of the entry, or found = FALSE, or an error
RECURSIVE findLoop(_, _, _, _)
findLoop(buf, hash, nodeOffset, nodeWalks) ==
    LET keyCount == getNodeKeyCount(buf, nodeOffset)
        i == scanNode(buf, nodeOffset, keyCount, hash, 0)
        child == getNodeChildOffset(buf, nodeOffset, i)
        none(err) == [found |-> FALSE, nodeOffset |-> 0, index |-> 0, err |-> err]
    IN  IF keyCount = OutOfRange THEN none("RangeError")
        ELSE IF i < keyCount /\ getNodeHash(buf, nodeOffset, i) = hash
             THEN [found |-> TRUE, nodeOffset |-> nodeOffset, index |-> i, err |-> "ok"]
        ELSE IF getNodeChildOffset(buf, nodeOffset, 0) = OutOfRange THEN none("RangeError")
        ELSE IF hasChildren(buf, nodeOffset)
             THEN IF child = OutOfRange THEN none("RangeError")
                  ELSE IF nodeWalks + 1 > TREE_HEIGHT_MAX THEN none("EBADMSG")
                  ELSE findLoop(buf, hash, child, nodeWalks + 1)
        ELSE none("ok")

findKey(buf, rootOffset, hash) == findLoop(buf, hash, rootOffset, 0)

(***************************************************************************)
(* JavaScript values.  A value is a tuple whose first element is its kind: *)
(* numbers that are safe integers are <<"int", n>>, or <<"int64", bytes>>  *)
(* with their eight two's-complement bytes when n needs more than 32 bits, *)
(* a BigInt carries its eight bytes likewise, other numbers carry          *)
(* their IEEE-754 bytes, strings are sequences of UTF-16 code units, an    *)
(* object literal is the sequence of its <<key, value>> pairs in           *)
(* Object.entries order.                                                   *)
(***************************************************************************)
Null == <<"null">>
Undefined == <<"undef">>
Bool(b) == <<"bool", b>>
Num(n) == <<"int", n>>
Num64(bytes) == <<"int64", bytes>>
BigInt(n) == <<"bigint", n>>
Float(bits) == <<"float", bits>>
Str(units) == <<"str", units>>
Bytes(b) == <<"bytes", b>>
Arr(items) == <<"arr", items>>
Obj(pairs) == <<"obj", pairs>>
Throw(code) == <<"throw", code>>

Kind(v) == v[1]

(***************************************************************************)
(* lite3.js: value codec, write side                                       *)
(***************************************************************************)
\* byte i of tagValue = ((keySize << KEY_SIZE_SHIFT) | (tagSize - 1)) >>> 0, for
\* keySize below 2^31: the shift keeps the low 32 bits
tagValueByte(keySize, tagSize, i) ==
    IF i = 0 THEN (keySize % Pow2(8 - KEY_SIZE_SHIFT)) * Pow2(KEY_SIZE_SHIFT) + (tagSize - 1)
    ELSE (keySize \div Pow2(8 * i - KEY_SIZE_SHIFT)) % 256

\* writeVarUint(this._buffer, offset, tagValue, tagSize)
writeKeyTag(s, offset, tagSize, keySize) ==
    copyBytes(s, offset, [i \in 1..tagSize |-> tagValueByte(keySize, tagSize, i - 1)])

\* readVarUint(this._buffer, kvOffset, tagSize) >>> KEY_SIZE_SHIFT; a byte past
\* the end of the buffer reads as 0
readKeySize(buf, kvOffset, tagSize) ==
    LET b(i) == IF i >= tagSize \/ byteAt(buf, kvOffset + i) = OutOfRange THEN 0
                ELSE byteAt(buf, kvOffset + i)
    IN  (b(0) \div Pow2(KEY_SIZE_SHIFT)) + Pow2(8 - KEY_SIZE_SHIFT) * b(1)
        + Pow2(16 - KEY_SIZE_SHIFT) * b(2) + Pow2(24 - KEY_SIZE_SHIFT) * b(3)

\* _writeKey
writeKey(s, offset, tagSize, keySize, keyEncoded) ==
    writeByte(
        copyBytes(writeKeyTag(s, offset, tagSize, keySize), offset + tagSize, keyEncoded),
        offset + tagSize + Len(keyEncoded), 0)

\* _skipKey
skipKey(buf, kvOffset) ==
    LET tagByte == byteAt(buf, kvOffset)
        tagSize == (IF tagByte = OutOfRange THEN 0 ELSE tagByte % 4) + 1
        keySize == readKeySize(buf, kvOffset, tagSize)
    IN  kvOffset + tagSize + keySize

\* _getValueSize; OutOfRange where readUint32 throws
getValueSize(buf, valOffset) ==
    LET type == byteAt(buf, valOffset)
    IN  IF type = TypeSTRING \/ type = TypeBYTES
        THEN IF readUint32(buf, valOffset + VAL_SIZE) = OutOfRange THEN OutOfRange
             ELSE VAL_SIZE + 4 + readUint32(buf, valOffset + VAL_SIZE)
        ELSE IF type = TypeOBJECT \/ type = TypeARRAY THEN NodeSIZE
        ELSE VAL_SIZE + TypeSizes(type)

\* The type tag, data size and writeData callback each typed setter (and each
\* branch of _appendImpl) hands to the implementation, by kind of value.
typeOf(value) ==
    CASE Kind(value) = "null" -> TypeNULL
      [] Kind(value) = "bool" -> TypeBOOL
      [] Kind(value) = "int" -> TypeI64
      [] Kind(value) = "int64" -> TypeI64
      [] Kind(value) = "bigint" -> TypeI64
      [] Kind(value) = "float" -> TypeF64
      [] Kind(value) = "str" -> TypeSTRING
      [] Kind(value) = "bytes" -> TypeBYTES

dataSizeOf(value) ==
    CASE Kind(value) = "null" -> 0
      [] Kind(value) = "bool" -> 1
      [] Kind(value) = "int" -> 8
      [] Kind(value) = "int64" -> 8
      [] Kind(value) = "bigint" -> 8
      [] Kind(value) = "float" -> 8
      [] Kind(value) = "str" -> 4 + (Len(encodeString(value[2])) + 1)
      [] Kind(value) = "bytes" -> 4 + Len(value[2])

writeData(s, off, value) ==
    CASE Kind(value) = "null" -> s
      [] Kind(value) = "bool" -> writeByte(s, off, IF value[2] THEN 1 ELSE 0)
      [] Kind(value) = "int" -> writeInt64(s, off, value)
      [] Kind(value) = "int64" -> writeInt64(s, off, value)
      [] Kind(value) = "bigint" -> writeInt64(s, off, value)
      [] Kind(value) = "float" -> writeFloat64(s, off, value[2])
      [] Kind(value) = "str" ->
            writeByte(
                copyBytes(writeUint32(s, off, Len(encodeString(value[2])) + 1),
                          off + 4, encodeString(value[2])),
                off + 4 + Len(encodeString(value[2])), 0)
      [] Kind(value) = "bytes" ->
            copyBytes(writeUint32(s, off, Len(value[2])), off + 4, value[2])

\* this._buffer[valOffset] = type; if (dataSize > 0) writeData(valOffset + 1)
writeValue(s, valOffset, value) ==
    IF dataSizeOf(value) > 0
    THEN writeData(writeByte(s, valOffset, typeOf(value)), valOffset + VAL_SIZE, value)
    ELSE writeByte(s, valOffset, typeOf(value))

\* writes key, type tag and data at the end of the used bytes, advances the
\* used length and repoints the entry r
writeEntry(s, r, keyTagSize, keySize, keyEncoded, value) ==
    setNodeKvOffset(
        setLen(
            writeValue(writeKey(s, s.len, keyTagSize, keySize, keyEncoded),
                       s.len + keyTagSize + keySize, value),
            s.len + keyTagSize + keySize + VAL_SIZE + dataSizeOf(value)),
        r.nodeOffset, r.index, s.len)

\* Faulty variant: an existing entry is never overwritten in place
storeEntryAppending(r, key, value) ==
    IF ~OK(r.s) THEN r.s
    ELSE IF r.isNew
    THEN incrementNodeSize(
             writeEntry(r.s, r, getKeyTagSize(getKeyData(key).size), getKeyData(key).size,
                        encodeString(key), value), 0)
    ELSE writeEntry(r.s, r, getKeyTagSize(getKeyData(key).size), getKeyData(key).size,
                    encodeString(key), value)

\* _setImpl after _findOrInsertKey returned r
storeEntry(r, key, value) ==
    LET keyData == getKeyData(key)
        keyTagSize == getKeyTagSize(keyData.size)
        kvOffset == getNodeKvOffset(r.s.buf, r.nodeOffset, r.index)
        valOffset == skipKey(r.s.buf, kvOffset)
        existingSize == getValueSize(r.s.buf, valOffset)
        newSize == VAL_SIZE + dataSizeOf(value)
    IN  IF ~OK(r.s) THEN r.s
        ELSE IF r.isNew
        THEN incrementNodeSize(
                 writeEntry(r.s, r, keyTagSize, keyData.size, encodeString(key), value), 0)
        ELSE IF kvOffset = OutOfRange \/ existingSize = OutOfRange
        THEN Fail(r.s, "RangeError")
        \* Overwrite in place
        ELSE IF newSize <= existingSize THEN writeValue(r.s, valOffset, value)
        \* Append new value
        ELSE writeEntry(r.s, r, keyTagSize, keyData.size, encodeString(key), value)

\* _setImpl(key, offset, type, dataSize, writeData) for the scalar value
setImpl(s, key, offset, value) ==
    LET keyData == getKeyData(key)
        entrySize == getKeyTagSize(keyData.size) + keyData.size + VAL_SIZE
                     + dataSizeOf(value)
    IN  storeEntry(
            findOrInsertKey(
                incrementGeneration(ensureSpace(s, entrySize + NodeSIZE * 2), 0),
                offset, keyData.hash),
            key, value)

Ret(s, value) == [s |-> s, ret |-> value]

\* _setNestedImpl, new key: the key at writeOffset, the node at the next
\* aligned offset after it
storeNestedNew(s, r, writeOffset, newNodeOffset, keyTagSize, keySize, keyEncoded, type) ==
    incrementNodeSize(
        initNode(
            setLen(
                setNodeKvOffset(
                    writeKey(s, writeOffset, keyTagSize, keySize, keyEncoded),
                    r.nodeOffset, r.index, writeOffset),
                newNodeOffset + NodeSIZE),
            newNodeOffset, type),
        0)

\* _setNestedImpl, existing scalar: allocate a node at nodeOffset, then write
\* the key at writeOffset and repoint the entry
storeNestedOver(s, r, nodeOffset, writeOffset, keyTagSize, keySize, keyEncoded, type) ==
    setNodeKvOffset(
        writeKey(
            initNode(setLen(s, nodeOffset + NodeSIZE), nodeOffset, type),
            writeOffset, keyTagSize, keySize, keyEncoded),
        r.nodeOffset, r.index, writeOffset)

\* _setNestedImpl after _findOrInsertKey returned r: the handle state and the
\* returned node offset
storeNested(r, key, type, alignmentPadding) ==
    LET keyData == getKeyData(key)
        keyTagSize == getKeyTagSize(keyData.size)
        \* new entry
        writeOffset == r.s.len + alignmentPadding
        newNodeOffset == alignOffset(writeOffset + keyTagSize + keyData.size, NodeALIGNMENT)
        \* existing entry
        kvOffset == getNodeKvOffset(r.s.buf, r.nodeOffset, r.index)
        valOffset == skipKey(r.s.buf, kvOffset)
        existingType == byteAt(r.s.buf, valOffset)
        \* existing scalar
        nodeOffset == alignOffset(r.s.len, NodeALIGNMENT)
        keyOffset == alignOffset(nodeOffset + NodeSIZE, NodeALIGNMENT) - NodeSIZE
    IN  IF ~OK(r.s) THEN Ret(r.s, Undefined)
        ELSE IF r.isNew
        THEN Ret(storeNestedNew(r.s, r, writeOffset, newNodeOffset, keyTagSize,
                                keyData.size, encodeString(key), type),
                 newNodeOffset)
        ELSE IF kvOffset = OutOfRange THEN Ret(Fail(r.s, "RangeError"), Undefined)
        \* Already a nested structure, reinitialize
        ELSE IF existingType = TypeOBJECT \/ existingType = TypeARRAY
        THEN Ret(initNode(r.s, valOffset, type), valOffset)
        ELSE Ret(storeNestedOver(r.s, r, nodeOffset, keyOffset, keyTagSize,
                                 keyData.size, encodeString(key), type),
                 nodeOffset)

\* _setNestedImpl: the handle state and the returned node offset
setNestedImpl(s, key, offset, type) ==
    LET keyData == getKeyData(key)
        keyTagSize == getKeyTagSize(keyData.size)
        unalignedValOffset == s.len + keyTagSize + keyData.size
        alignedValOffset == alignOffset(unalignedValOffset, NodeALIGNMENT)
        alignmentPadding == alignedValOffset - unalignedValOffset
        entrySize == keyTagSize + keyData.size + alignmentPadding + NodeSIZE
    IN  storeNested(
            findOrInsertKey(
                incrementGeneration(ensureSpace(s, entrySize + NodeSIZE * 2), 0),
                offset, keyData.hash),
            key, type, alignmentPadding)

\* if (isNew) incrementNodeSize(buffer, arrayOffset)
countItem(s, r, arrayOffset) == IF r.isNew THEN incrementNodeSize(s, arrayOffset) ELSE s

\* _appendPrimitiveImpl after _findOrInsertKey returned r
storeItem(r, arrayOffset, value) ==
    IF ~OK(r.s) THEN r.s
    ELSE countItem(
             setNodeKvOffset(
                 setLen(writeValue(r.s, r.s.len, value),
                        r.s.len + VAL_SIZE + dataSizeOf(value)),
                 r.nodeOffset, r.index, r.s.len),
             r, arrayOffset)

\* _appendPrimitiveImpl for the scalar value
appendPrimitiveImpl(s, arrayOffset, index, value) ==
    storeItem(
        findOrInsertKey(
            incrementGeneration(
                ensureSpace(s, VAL_SIZE + dataSizeOf(value) + NodeSIZE * 2), 0),
            arrayOffset, index),
        arrayOffset, value)

\* _appendNestedImpl after _findOrInsertKey returned r
storeNestedItem(r, arrayOffset, type) ==
    IF ~OK(r.s) THEN Ret(r.s, Undefined)
    ELSE Ret(countItem(
                 setNodeKvOffset(
                     initNode(
                         setLen(r.s, alignOffset(r.s.len, NodeALIGNMENT) + NodeSIZE),
                         alignOffset(r.s.len, NodeALIGNMENT), type),
                     r.nodeOffset, r.index, alignOffset(r.s.len, NodeALIGNMENT)),
                 r, arrayOffset),
             alignOffset(r.s.len, NodeALIGNMENT))

\* _appendNestedImpl: the handle state and the returned node offset
appendNestedImpl(s, arrayOffset, index, type) ==
    storeNestedItem(
        findOrInsertKey(incrementGeneration(ensureSpace(s, NodeSIZE * 3), 0),
                        arrayOffset, index),
        arrayOffset, type)

\* Faulty variant: the used length is kept when the handle held data
markInitializedKeepLen(s) ==
    IF OK(s) THEN [s EXCEPT !.len = IF s.init THEN Max(s.len, NodeSIZE) ELSE NodeSIZE,
                            !.init = TRUE]
    ELSE s

\* this._buflen = Node.SIZE; this._initialized = true
markInitialized(s) == IF OK(s) THEN [s EXCEPT !.len = NodeSIZE, !.init = TRUE] ELSE s

\* Faulty variant: the check counts the access in the root's generation
checkInitializedCounting(s) ==
    IF s.init THEN incrementGeneration(s, 0) ELSE Fail(s, "EINVAL")

\* _checkInitialized
checkInitialized(s) == IF s.init THEN s ELSE Fail(s, "EINVAL")

IsScalar(value) ==
    Kind(value) \in {"null", "bool", "int", "int64", "bigint", "float", "str", "bytes"}

\* set(key, value, offset) and appendValue(value, arrayOffset) / _appendImpl,
\* which call each other on nested values
RECURSIVE set(_, _, _, _), appendValue(_, _, _), setEntries(_, _, _), appendItems(_, _, _)
RECURSIVE setInto(_, _), appendInto(_, _)
set(s, key, value, offset) ==
    IF ~OK(checkInitialized(s)) THEN checkInitialized(s)
    ELSE IF IsScalar(value) THEN setImpl(s, key, offset, value)
    ELSE IF Kind(value) = "arr"
         THEN appendInto(setNestedImpl(s, key, offset, TypeARRAY), value[2])
    ELSE IF Kind(value) = "obj"
         THEN setInto(setNestedImpl(s, key, offset, TypeOBJECT), value[2])
    ELSE Fail(s, "EINVAL")

\* the entries of an object literal set at the offset r.ret just returned
setInto(r, pairs) == setEntries(r.s, pairs, r.ret)

\* the items of an array literal appended at the offset r.ret just returned
appendInto(r, items) == appendItems(r.s, items, r.ret)

\* for (const [k, v] of Object.entries(value)) this.set(k, v, objOffset)
setEntries(s, pairs, objOffset) ==
    IF ~OK(s) \/ pairs = <<>> THEN s
    ELSE setEntries(set(s, Head(pairs)[1], Head(pairs)[2], objOffset), Tail(pairs), objOffset)

\* for (i = 0; i < value.length; i++) this.appendValue(value[i], arrOffset)
appendItems(s, items, arrOffset) ==
    IF ~OK(s) \/ items = <<>> THEN s
    ELSE appendItems(appendValue(s, Head(items), arrOffset), Tail(items), arrOffset)

appendValue(s, value, arrayOffset) ==
    LET index == getNodeSize(s.buf, arrayOffset)
    IN  IF ~OK(s) THEN s
        ELSE IF index = OutOfRange THEN Fail(s, "RangeError")
        ELSE IF IsScalar(value) THEN appendPrimitiveImpl(s, arrayOffset, index, value)
        ELSE IF Kind(value) = "arr"
             THEN appendInto(appendNestedImpl(s, arrayOffset, index, TypeARRAY), value[2])
        ELSE IF Kind(value) = "obj"
             THEN setInto(appendNestedImpl(s, arrayOffset, index, TypeOBJECT), value[2])
        ELSE s

\* setNull, setBool, setInt64, setFloat64, setString, setBytes
setTyped(s, key, value, offset) == setImpl(s, key, offset, value)

setObject(s, key, offset) == setNestedImpl(s, key, offset, TypeOBJECT)

setArray(s, key, offset) == setNestedImpl(s, key, offset, TypeARRAY)

\* initObject / initArray
initRoot(s, type) ==
    markInitialized(initNode(ensureSpace(s, NodeSIZE), 0, type))

initObject(s) == initRoot(s, TypeOBJECT)

initArray(s) == initRoot(s, TypeARRAY)

(***************************************************************************)
(* lite3.js: value codec, read side, and traversal                         *)
(***************************************************************************)
\* _readKey
readKey(buf, kvOffset) ==
    LET tagByte == byteAt(buf, kvOffset)
        tagSize == (IF tagByte = OutOfRange THEN 0 ELSE tagByte % 4) + 1
        keySize == readKeySize(buf, kvOffset, tagSize)
    IN  decodeString(buf, kvOffset + tagSize, keySize - 1)

\* the stack of _iterate after "go to leftmost leaf" from its top node;
\* a stack entry is <<nodeOffset, index>>, the stack <<>> stands for a
\* RangeError thrown by a read of a child offset
RECURSIVE leftmost(_, _)
leftmost(buf, stack) ==
    LET top == stack[Len(stack)][1]
        child == getNodeChildOffset(buf, top, 0)
    IN  IF child = OutOfRange THEN <<>>
        ELSE IF child # 0 THEN leftmost(buf, Append(stack, <<child, 0>>))
        ELSE stack

\* after yielding slot index of the node on top: index++, then push the next
\* child and go to its leftmost leaf when the node has children
advance(buf, stack) ==
    LET n == Len(stack)
        node == stack[n][1]
        bumped == [stack EXCEPT ![n] = <<node, stack[n][2] + 1>>]
        first == getNodeChildOffset(buf, node, 0)
        child == getNodeChildOffset(buf, node, stack[n][2] + 1)
    IN  IF first = OutOfRange \/ child = OutOfRange THEN <<>>
        ELSE IF first # 0 THEN leftmost(buf, Append(bumped, <<child, 0>>))
        ELSE bumped

\* the main loop of _iterate: the kv offsets yielded, in order; the last
\* element is OutOfRange when a read threw
RECURSIVE iterLoop(_, _, _)
iterLoop(buf, stack, out) ==
    IF stack = <<>> THEN out
    ELSE LET n == Len(stack)
             current == stack[n]
             keyCount == getNodeKeyCount(buf, current[1])
             popped == SubSeq(stack, 1, n - 1)
             parent == popped[n - 1]
             parentKeyCount == getNodeKeyCount(buf, parent[1])
         IN  IF keyCount = OutOfRange THEN Append(out, OutOfRange)
             ELSE IF current[2] >= keyCount
             THEN IF popped = <<>> THEN out
                  ELSE IF parentKeyCount = OutOfRange THEN Append(out, OutOfRange)
                  ELSE IF parent[2] < parentKeyCount
                  THEN LET kv == getNodeKvOffset(buf, parent[1], parent[2])
                           next == advance(buf, popped)
                       IN  IF kv = OutOfRange \/ next = <<>>
                           THEN Append(Append(out, kv), OutOfRange)
                           ELSE iterLoop(buf, next, Append(out, kv))
                  ELSE iterLoop(buf, popped, out)
             ELSE LET kv == getNodeKvOffset(buf, current[1], current[2])
                      next == advance(buf, stack)
                  IN  IF kv = OutOfRange \/ next = <<>>
                      THEN Append(Append(out, kv), OutOfRange)
                      ELSE iterLoop(buf, next, Append(out, kv))

\* _iterate(rootOffset): the kv offsets of the entries it yields
iterate(buf, rootOffset) ==
    LET start == leftmost(buf, <<<<rootOffset, 0>>>>)
    IN  IF readUint32(buf, rootOffset) = OutOfRange \/ start = <<>> THEN <<OutOfRange>>
        ELSE iterLoop(buf, start, <<>>)

\* The generator of _iterate, step by step.  It is "created" by the call
\* (no line of the body has run), "yielded" while suspended at a yield with
\* its stack as it was there (the index++ and the descent that follow the
\* yield run when it is resumed, on the buffer as it is then), and "closed"
\* once the body has returned or thrown.  gen0 is history: the generation of
\* the root when the generator was created.
NoIterator == [at |-> "none", root |-> 0, isObject |-> FALSE, stack |-> <<>>, gen0 |-> 0]

newIterator(buf, rootOffset) ==
    [at |-> "created", root |-> rootOffset, isObject |-> FALSE, stack |-> <<>>,
     gen0 |-> getNodeGeneration(buf, 0)]

\* from the top of the loop "while (stack.length > 0)" to the next yield: the
\* stack at the yield and the kv offset yielded, or done, or a throw
RECURSIVE seekYield(_, _)
seekYield(buf, stack) ==
    IF stack = <<>> THEN [kind |-> "done", stack |-> <<>>, kv |-> 0]
    ELSE LET n == Len(stack)
             current == stack[n]
             keyCount == getNodeKeyCount(buf, current[1])
             popped == SubSeq(stack, 1, n - 1)
             parent == popped[n - 1]
             parentKeyCount == getNodeKeyCount(buf, parent[1])
             throw == [kind |-> "throw", stack |-> <<>>, kv |-> 0]
         IN  IF keyCount = OutOfRange THEN throw
             ELSE IF current[2] >= keyCount
             THEN IF popped = <<>> THEN [kind |-> "done", stack |-> <<>>, kv |-> 0]
                  ELSE IF parentKeyCount = OutOfRange THEN throw
                  ELSE IF parent[2] < parentKeyCount
                  THEN IF getNodeKvOffset(buf, parent[1], parent[2]) = OutOfRange THEN throw
                       ELSE [kind |-> "yield", stack |-> popped,
                             kv |-> getNodeKvOffset(buf, parent[1], parent[2])]
                  ELSE seekYield(buf, popped)
             ELSE IF getNodeKvOffset(buf, current[1], current[2]) = OutOfRange THEN throw
             ELSE [kind |-> "yield", stack |-> stack,
                   kv |-> getNodeKvOffset(buf, current[1], current[2])]

\* next() on the generator it: what the body does until it yields, returns
\* or throws
resume(buf, it) ==
    LET start == IF it.at = "created" THEN leftmost(buf, <<<<it.root, 0>>>>)
                 ELSE advance(buf, it.stack)
    IN  IF it.at = "created" /\ readUint32(buf, it.root) = OutOfRange
        THEN [kind |-> "throw", stack |-> <<>>, kv |-> 0]
        ELSE IF start = <<>> THEN [kind |-> "throw", stack |-> <<>>, kv |-> 0]
        ELSE seekYield(buf, start)

\* the generator after that next()
resumed(buf, it) ==
    [it EXCEPT !.at = IF resume(buf, it).kind = "yield" THEN "yielded" ELSE "closed",
               !.stack = resume(buf, it).stack,
               !.isObject = IF it.at = "created" THEN getNodeType(buf, it.root) = TypeOBJECT
                            ELSE it.isObject]

\* the value next() returns: { key, valueOffset } as <<key, valueOffset>>,
\* undefined when the generator is done
yielded(buf, it) ==
    LET r == resume(buf, it)
        isObject == resumed(buf, it).isObject
    IN  IF r.kind = "throw" THEN Throw("RangeError")
        ELSE IF r.kind = "done" THEN Undefined
        ELSE IF isObject THEN Arr(<<Str(readKey(buf, r.kv)), Num(skipKey(buf, r.kv))>>)
        ELSE Arr(<<Null, Num(r.kv)>>)

\* result[key] = value on the function that stands for a plain object
Put(f, key, value) ==
    [k \in DOMAIN f \cup {key} |-> IF k = key THEN value ELSE f[k]]

EmptyObject == [k \in {} |-> Null]

\* _readValue, _readObject, _readArray
RECURSIVE readValue(_, _), readObjectFrom(_, _, _), readArrayFrom(_, _, _, _, _)
readValue(buf, valOffset) ==
    LET type == byteAt(buf, valOffset)
        len == readUint32(buf, valOffset + VAL_SIZE)
        eight == readView(buf, valOffset + VAL_SIZE, 8)
        size == getNodeSize(buf, valOffset)
    IN  CASE type = TypeNULL -> Null
          [] type = TypeBOOL -> Bool(byteAt(buf, valOffset + VAL_SIZE) # 0)
          [] type = TypeI64 ->
                IF ~InRange(buf, valOffset + VAL_SIZE, 8) THEN Throw("RangeError")
                ELSE IF I64Leq(MinSafeInteger, eight) /\ I64Leq(eight, MaxSafeInteger)
                     THEN toNumber(eight)
                ELSE BigInt(eight)
          [] type = TypeF64 ->
                IF ~InRange(buf, valOffset + VAL_SIZE, 8) THEN Throw("RangeError")
                ELSE Float(eight)
          [] type = TypeSTRING ->
                IF len = OutOfRange THEN Throw("RangeError")
                ELSE Str(decodeString(buf, valOffset + VAL_SIZE + 4, len - 1))
          [] type = TypeBYTES ->
                IF len = OutOfRange THEN Throw("RangeError")
                ELSE Bytes(readView(buf, valOffset + VAL_SIZE + 4,
                        Max(0, (IF valOffset + VAL_SIZE + 4 + len > Len(buf) THEN Len(buf)
                                ELSE valOffset + VAL_SIZE + 4 + len)
                               - (valOffset + VAL_SIZE + 4))))
          [] type = TypeOBJECT -> readObjectFrom(buf, iterate(buf, valOffset), EmptyObject)
          [] type = TypeARRAY ->
                IF size = OutOfRange THEN Throw("RangeError")
                ELSE readArrayFrom(buf, valOffset, 0, size, <<>>)
          [] OTHER -> Throw("EBADMSG")

\* for (const { key, valueOffset } of this._iterate(nodeOffset))
\*   result[key] = this._readValue(valueOffset)
readObjectFrom(buf, kvs, result) ==
    IF kvs = <<>> THEN Obj(result)
    ELSE IF Head(kvs) = OutOfRange THEN Throw("RangeError")
    ELSE LET value == readValue(buf, skipKey(buf, Head(kvs)))
         IN  IF Kind(value) = "throw" THEN value
             ELSE readObjectFrom(buf, Tail(kvs), Put(result, readKey(buf, Head(kvs)), value))

\* for (i = 0; i < size; i++) { r = _findKey(nodeOffset, i); if (r) push }
readArrayFrom(buf, nodeOffset, i, size, result) ==
    IF i >= size THEN Arr(result)
    ELSE LET r == findKey(buf, nodeOffset, i)
             kvOffset == getNodeKvOffset(buf, r.nodeOffset, r.index)
             value == readValue(buf, kvOffset)
         IN  IF r.err # "ok" THEN Throw(r.err)
             ELSE IF ~r.found THEN readArrayFrom(buf, nodeOffset, i + 1, size, result)
             ELSE IF Kind(value) = "throw" THEN value
             ELSE readArrayFrom(buf, nodeOffset, i + 1, size, Append(result, value))

readObject(buf, nodeOffset) == readObjectFrom(buf, iterate(buf, nodeOffset), EmptyObject)

readArray(buf, nodeOffset) ==
    IF getNodeSize(buf, nodeOffset) = OutOfRange THEN Throw("RangeError")
    ELSE readArrayFrom(buf, nodeOffset, 0, getNodeSize(buf, nodeOffset), <<>>)

\* get(key, offset)
get(s, key, offset) ==
    LET r == findKey(s.buf, offset, getKeyData(key).hash)
        kvOffset == getNodeKvOffset(s.buf, r.nodeOffset, r.index)
    IN  IF ~s.init THEN Throw("EINVAL")
        ELSE IF r.err # "ok" THEN Throw(r.err)
        ELSE IF ~r.found THEN Undefined
        ELSE readValue(s.buf, skipKey(s.buf, kvOffset))

\* getAt(index, arrayOffset)
getAt(s, index, arrayOffset) ==
    LET r == findKey(s.buf, arrayOffset, index)
    IN  IF ~s.init THEN Throw("EINVAL")
        ELSE IF r.err # "ok" THEN Throw(r.err)
        ELSE IF ~r.found THEN Undefined
        ELSE readValue(s.buf, getNodeKvOffset(s.buf, r.nodeOffset, r.index))

\* has(key, offset)
has(s, key, offset) ==
    LET r == findKey(s.buf, offset, getKeyData(key).hash)
    IN  IF ~s.init THEN Throw("EINVAL")
        ELSE IF r.err # "ok" THEN Throw(r.err)
        ELSE Bool(r.found)

\* size(offset)
size(s, offset) ==
    IF ~s.init THEN Throw("EINVAL")
    ELSE IF getNodeSize(s.buf, offset) = OutOfRange THEN Throw("RangeError")
    ELSE Num(getNodeSize(s.buf, offset))

\* getType()
getType(s) ==
    IF ~s.init THEN Throw("EINVAL")
    ELSE Num(getNodeType(s.buf, 0))

\* toJSON()
toJSON(s) ==
    IF ~s.init THEN Throw("EINVAL")
    ELSE IF getNodeType(s.buf, 0) = TypeOBJECT THEN readObject(s.buf, 0)
    ELSE IF getNodeType(s.buf, 0) = TypeARRAY THEN readArray(s.buf, 0)
    ELSE Throw("EBADMSG")

\* the values at the kv offsets kvs of the node at offset, as values() and
\* entries() read them; Throw when a read throws
RECURSIVE readValuesFrom(_, _, _, _)
readValuesFrom(buf, isObject, kvs, result) ==
    IF kvs = <<>> THEN Arr(result)
    ELSE IF Head(kvs) = OutOfRange THEN Throw("RangeError")
    ELSE LET value == readValue(buf, IF isObject THEN skipKey(buf, Head(kvs)) ELSE Head(kvs))
         IN  IF Kind(value) = "throw" THEN value
             ELSE readValuesFrom(buf, isObject, Tail(kvs), Append(result, value))

\* keys(offset): the keys _iterate yields that are not null (an array node
\* yields null keys only)
keys(s, offset) ==
    LET kvs == iterate(s.buf, offset)
    IN  IF ~s.init THEN Throw("EINVAL")
        ELSE IF kvs # <<>> /\ kvs[Len(kvs)] = OutOfRange THEN Throw("RangeError")
        ELSE IF getNodeType(s.buf, offset) = TypeOBJECT
        THEN Arr([i \in 1..Len(kvs) |-> Str(readKey(s.buf, kvs[i]))])
        ELSE Arr(<<>>)

\* values(offset)
values(s, offset) ==
    IF ~s.init THEN Throw("EINVAL")
    ELSE readValuesFrom(s.buf, getNodeType(s.buf, offset) = TypeOBJECT,
                        iterate(s.buf, offset), <<>>)

\* entries(offset): the pairs [key, value] of the keys that are not null
entries(s, offset) ==
    LET ks == keys(s, offset)
        vs == values(s, offset)
    IN  IF Kind(vs) = "throw" THEN vs
        ELSE IF Kind(ks) = "throw" THEN ks
        ELSE Arr([i \in 1..Len(ks[2]) |-> Arr(<<ks[2][i], vs[2][i]>>)])

\* fromJSON(data): a fresh handle of the default capacity filled from data
RECURSIVE fromJSONItems(_, _)
fromJSONItems(s, items) ==
    IF items = <<>> THEN s
    ELSE fromJSONItems(appendValue(s, Head(items), 0), Tail(items))

RECURSIVE fromJSONEntries(_, _)
fromJSONEntries(s, pairs) ==
    IF pairs = <<>> THEN s
    ELSE fromJSONEntries(set(s, Head(pairs)[1], Head(pairs)[2], 0), Tail(pairs))

DefaultInitialSize == 1024

New(initialSize) == Handle(Zeros(initialSize), 0, FALSE)

fromJSON(data) ==
    IF Kind(data) = "arr" THEN fromJSONItems(initArray(New(DefaultInitialSize)), data[2])
    ELSE IF Kind(data) = "obj" THEN fromJSONEntries(initObject(New(DefaultInitialSize)), data[2])
    ELSE Fail(New(DefaultInitialSize), "EINVAL")

\* fromBuffer(buffer, length): a handle of capacity buffer.length holding a copy
fromBuffer(bytes, length) == Handle(bytes, length, TRUE)

\* the buffer getter: this._buffer.subarray(0, this._buflen)
bufferOf(s) == [i \in 1..(IF s.len > Len(s.buf) THEN Len(s.buf) ELSE s.len) |-> s.buf[i]]

(***************************************************************************)
(* The state machine: one handle and the caller that drives it.            *)
(*   buffer, buflen, initialized  the handle's fields                      *)
(*   nested   the offset setObject / setArray last returned (0: none)      *)
(*   built    number of entries the caller's build loop has added          *)
(*   phase    "new" after construction; "build" after the first init,      *)
(*            while the caller's loop adds the next entry; "fill" after a  *)
(*            setObject / setArray whose returned offset the caller is     *)
(*            about to populate; "done" after the call that follows        *)
(*   last     the operation last called and its arguments                  *)
(*   ret      what it returned, or Throw(code) when it threw               *)
(*   before   history: the handle as it was when that operation was called *)
(*   iter     the generator a call of _iterate returned: its position in   *)
(*            the code of _iterate and its local variables                 *)
(*   other    a second handle, made by fromBuffer from the bytes of the    *)
(*            first: its bytes, used length and initialized flag, and      *)
(*            whether its array is its own or the array of the first       *)
(*            handle seen through the view the buffer getter returned      *)
(*   spine    the key counts of the nodes from the root to the rightmost   *)
(*            leaf of an array filled by appends, where the bytes are not  *)
(*            followed (see the section on long arrays)                    *)
(* The caller builds a container (an object by setting the keys of         *)
(* KeyOrder in turn, an array by appending the items of ItemOrder), and at *)
(* any point of that makes one further call of any operation; when that    *)
(* call is setObject or setArray it makes one more call on the offset      *)
(* returned.                                                               *)
(***************************************************************************)
This == <<"this">>

Cur == Handle(buffer, buflen, initialized)

Call(op, key, value, offset) == [op |-> op, key |-> key, value |-> value, offset |-> offset]

\* the path of a root that holds no key: initNode
NoSpine == <<0>>

\* no second handle
NoHandle == [buf |-> <<>>, len |-> 0, init |-> FALSE, own |-> TRUE]

OtherHandle == Handle(other.buf, other.len, other.init)

\* the second handle after an operation on the first left the first as s:
\* a handle on its own array is as it was; a handle on a view of the first
\* handle's array sees what was written there, until _ensureSpace gives the
\* first handle a new array
seenByOther(s) ==
    IF other.own THEN other
    ELSE IF Len(s.buf) = Len(buffer)
         THEN [other EXCEPT !.buf = SubSeq(s.buf, 1, Len(other.buf))]
    ELSE [other EXCEPT !.own = TRUE]

\* the handle after an operation that left it as s, returning value
Apply(s, call, value) ==
    /\ buffer' = s.buf
    /\ buflen' = s.len
    /\ initialized' = s.init
    /\ last' = call
    /\ ret' = IF OK(s) THEN value ELSE Throw(s.err)
    /\ before' = Cur
    /\ iter' = iter
    /\ other' = seenByOther(s)
    /\ spine' = spine

\* Bounds
MaxKeys == 12
MaxItems == 9
InitialSize == 128

Key(c) == <<c>>
ka == Key(97)
kc == Key(99)
kd == Key(100)
kh == Key(104)
kz == Key(122)

\* 88.427 as IEEE-754 bytes, little-endian
F88 == <<197, 32, 176, 114, 104, 27, 86, 64>>

\* the keys "a", "b", ... the build loop sets, in this order
KeyOrder == [i \in 1..26 |-> Key(96 + i)]

ChainValues ==
    << Str(<<120, 121>>), Num(55), Obj(<<<<ka, Num(1)>>>>), Bool(TRUE), Null, Float(F88),
       Bytes(<<72>>) >>

\* the value the build loop sets key number i to
ChainValue(i) == ChainValues[((i - 1) % Len(ChainValues)) + 1]

ItemValues ==
    << Num(1), Str(<<116, 119, 111>>), Bool(TRUE), Null, Obj(<<<<Key(110), Str(<<111>>)>>>>),
       Arr(<<Num(1), Num(2)>>) >>

\* the value the build loop appends as item number i
ItemOrder(i) == ItemValues[((i - 1) % Len(ItemValues)) + 1]

\* keys and values of the further call
ProbeKeys == {kc, kd, kh, kz}
ProbeValues ==
    {Null, Num(56), Obj(<<<<ka, Num(1)>>>>), Arr(<<Num(1), Str(<<>>)>>), Undefined,
     Obj(<<<<ka, Undefined>>>>)}
FillKeys == {ka}
FillValues == {Num(7), Obj(<<>>)}

Probing == phase \in {"new", "build", "loaded"}

\* the arguments a call of a keyed operation may take in the current phase
Args(vals) ==
    IF Probing THEN {<<k, v, 0>> : k \in ProbeKeys, v \in vals}
    ELSE IF phase = "fill" THEN {<<k, v, nested>> : k \in FillKeys, v \in vals}
    ELSE {}

Init ==
    /\ buffer = Zeros(InitialSize)
    /\ buflen = 0
    /\ initialized = FALSE
    /\ nested = 0
    /\ built = 0
    /\ phase = "new"
    /\ last = Call("new", <<>>, Null, 0)
    /\ ret = This
    /\ before = New(InitialSize)
    /\ iter = NoIterator
    /\ other = NoHandle
    /\ spine = NoSpine

InitObject ==
    /\ Probing
    /\ Apply(initObject(Cur), Call("initObject", <<>>, Null, 0), This)
    /\ phase' = IF phase = "new" THEN "build" ELSE "done"
    /\ UNCHANGED <<nested, built>>

InitArray ==
    /\ Probing
    /\ Apply(initArray(Cur), Call("initArray", <<>>, Null, 0), This)
    /\ phase' = IF phase = "new" THEN "build" ELSE "done"
    /\ UNCHANGED <<nested, built>>

\* the build loop of an object: lite3.set(key, value)
GrowObject ==
    /\ phase = "build"
    /\ getNodeType(buffer, 0) = TypeOBJECT
    /\ built < MaxKeys
    /\ Apply(set(Cur, KeyOrder[built + 1], ChainValue(built + 1), 0),
             Call("set", KeyOrder[built + 1], ChainValue(built + 1), 0), This)
    /\ built' = built + 1
    /\ UNCHANGED <<nested, phase>>

\* the build loop of an array: lite3.appendValue(item, 0)
GrowArray ==
    /\ phase = "build"
    /\ getNodeType(buffer, 0) = TypeARRAY
    /\ built < MaxItems
    /\ Apply(appendValue(Cur, ItemOrder(built + 1), 0),
             Call("appendValue", <<>>, ItemOrder(built + 1), 0), This)
    /\ built' = built + 1
    /\ UNCHANGED <<nested, phase>>

Set ==
    /\ \E x \in Args(IF Probing THEN ProbeValues ELSE FillValues) :
          Apply(set(Cur, x[1], x[2], x[3]), Call("set", x[1], x[2], x[3]), This)
    /\ phase' = "done"
    /\ UNCHANGED <<nested, built>>

SetTypedAction(op, vals) ==
    /\ Probing
    /\ \E x \in Args(vals) :
          Apply(setTyped(Cur, x[1], x[2], x[3]), Call(op, x[1], x[2], x[3]), This)
    /\ phase' = "done"
    /\ UNCHANGED <<nested, built>>

SetNull == SetTypedAction("setNull", {Null})

SetBool == SetTypedAction("setBool", {Bool(FALSE)})

SetInt64 == SetTypedAction("setInt64", {Num(0 - 2)})

SetFloat64 == SetTypedAction("setFloat64", {Float(F88)})

SetString == SetTypedAction("setString", {Str(<<233, 120, 121>>)})

SetBytes == SetTypedAction("setBytes", {Bytes(<<>>)})

SetNestedAction(op, type) ==
    /\ \E x \in Args({Null}) :
          LET r == setNestedImpl(Cur, x[1], x[3], type)
          IN  /\ Apply(r.s, Call(op, x[1], Null, x[3]), Num(r.ret))
              /\ nested' = IF OK(r.s) THEN r.ret ELSE nested
              /\ phase' = IF OK(r.s) /\ Probing THEN "fill" ELSE "done"
    /\ UNCHANGED built

SetObject == SetNestedAction("setObject", TypeOBJECT)

SetArray == SetNestedAction("setArray", TypeARRAY)

AppendValue ==
    /\ (Probing \/ phase = "fill")
    /\ \E v \in (IF Probing THEN ProbeValues ELSE FillValues) :
          Apply(appendValue(Cur, v, IF Probing THEN 0 ELSE nested),
                Call("appendValue", <<>>, v, IF Probing THEN 0 ELSE nested), This)
    /\ phase' = "done"
    /\ UNCHANGED <<nested, built>>

Next ==
    \/ InitObject
    \/ InitArray
    \/ GrowObject
    \/ GrowArray
    \/ Set
    \/ SetNull
    \/ SetBool
    \/ SetInt64
    \/ SetFloat64
    \/ SetString
    \/ SetBytes
    \/ SetObject
    \/ SetArray
    \/ AppendValue

Spec == Init /\ [][Next]_vars

(***************************************************************************)
(* The JSON round trip: fromJSON on a literal, then toJSON on the handle   *)
(* it returned.  The literals are the objects of up to MaxJsonKeys keys    *)
(* "a", "b", ... whose values are scalars except, at most, one nested      *)
(* value at any position, and a few arrays.                                *)
(***************************************************************************)
MaxJsonKeys == 9

JsonScalars == << Str(<<120, 121>>), Num(55), Bool(TRUE), Null, Float(F88) >>

JsonScalar(i) == JsonScalars[((i - 1) % Len(JsonScalars)) + 1]

JsonNesteds == {Obj(<<>>), Arr(<<Num(1), Null>>)}

\* the object of n keys whose value number p is v (p = 0: all scalars)
JsonObject(n, p, v) ==
    Obj([i \in 1..n |-> <<KeyOrder[i], IF i = p THEN v ELSE JsonScalar(i)>>])

JsonInputs ==
    {JsonObject(n, 0, Null) : n \in 0..MaxJsonKeys}
    \cup {JsonObject(x[1], x[2], x[3]) :
            x \in {y \in (1..MaxJsonKeys) \X (1..MaxJsonKeys) \X JsonNesteds : y[2] <= y[1]}}
    \cup {Arr(<<>>),
          Arr(<<Num(1), Str(<<116, 119, 111>>), Bool(TRUE), Null>>),
          Arr(<<Arr(<<Num(1), Num(2)>>), Arr(<<>>)>>),
          Arr(<<Obj(<<<<ka, Arr(<<Null>>)>>>>)>>)}

InitJSON ==
    /\ buffer = Zeros(DefaultInitialSize)
    /\ buflen = 0
    /\ initialized = FALSE
    /\ nested = 0
    /\ built = 0
    /\ phase = "literal"
    /\ \E v \in JsonInputs : last = Call("literal", <<>>, v, 0)
    /\ ret = This
    /\ before = New(DefaultInitialSize)
    /\ iter = NoIterator
    /\ other = NoHandle
    /\ spine = NoSpine

\* Lite3.fromJSON(data)
FromJSON ==
    /\ phase = "literal"
    /\ Apply(fromJSON(last.value), Call("fromJSON", <<>>, last.value, 0), This)
    /\ phase' = "parsed"
    /\ UNCHANGED <<nested, built>>

\* lite3.toJSON()
ToJSON ==
    /\ phase = "parsed"
    /\ Kind(ret) # "throw"
    /\ Apply(Cur, Call("toJSON", <<>>, last.value, 0), toJSON(Cur))
    /\ phase' = "read"
    /\ UNCHANGED <<nested, built>>

NextJSON ==
    \/ FromJSON
    \/ ToJSON

SpecJSON == InitJSON /\ [][NextJSON]_vars

(***************************************************************************)
(* Colliding keys: djb2Hash takes charCodeAt(i) & 0xFF, so a key and the   *)
(* key whose one character is 256 code points higher have the same hash.   *)
(* The caller builds an object from the keys of CollideOrder, and at any   *)
(* point sets one key of a colliding pair and then the other.              *)
(***************************************************************************)
\* "a" .. "g", then "i", "j", "k": "h" is left out, its hash falls between
\* the hashes of "g" and "i"
CollideOrder == [i \in 1..10 |-> Key(IF i < 8 THEN 96 + i ELSE 97 + i)]

\* <<k1, k2>>: "h" and U+0168, "z" and U+017A, in either order
CollidePairs ==
    {<<kh, Key(360)>>, <<Key(360), kh>>, <<kz, Key(378)>>, <<Key(378), kz>>}

CollideValues == {Num(1), Null, Str(<<120, 121>>)}

InitCollide ==
    /\ buffer = Zeros(InitialSize)
    /\ buflen = 0
    /\ initialized = FALSE
    /\ nested = 0
    /\ built = 0
    /\ phase = "pair-new"
    /\ last = Call("new", <<>>, Null, 0)
    /\ ret = This
    /\ before = New(InitialSize)
    /\ iter = NoIterator
    /\ other = NoHandle
    /\ spine = NoSpine

CollideInit ==
    /\ phase = "pair-new"
    /\ Apply(initObject(Cur), Call("initObject", <<>>, Null, 0), This)
    /\ phase' = "pair-build"
    /\ UNCHANGED <<nested, built>>

CollideGrow ==
    /\ phase = "pair-build"
    /\ built < Len(CollideOrder)
    /\ Apply(set(Cur, CollideOrder[built + 1], Num(built), 0),
             Call("set", CollideOrder[built + 1], Num(built), 0), This)
    /\ built' = built + 1
    /\ UNCHANGED <<nested, phase>>

\* lite3.set(k1, v1)
CollideFirst ==
    /\ phase = "pair-build"
    /\ \E p \in CollidePairs, v \in CollideValues :
          Apply(set(Cur, p[1], v, 0), Call("set", p[1], v, 0), This)
    /\ phase' = "pair-first"
    /\ UNCHANGED <<nested, built>>

\* lite3.set(k2, v2), k2 the key that collides with the k1 just set
CollideSecond ==
    /\ phase = "pair-first"
    /\ \E p \in CollidePairs, v \in CollideValues :
          /\ p[1] = last.key
          /\ Apply(set(Cur, p[2], v, 0), Call("set", p[2], v, 0), This)
    /\ phase' = "pair-second"
    /\ UNCHANGED <<nested, built>>

NextCollide ==
    \/ CollideInit
    \/ CollideGrow
    \/ CollideFirst
    \/ CollideSecond

SpecCollide == InitCollide /\ [][NextCollide]_vars

(***************************************************************************)
(* Iteration interleaved with mutation: while the caller builds the        *)
(* container it obtains one generator from _iterate(0) and calls next()    *)
(* on it between its sets or appends.                                      *)
(***************************************************************************)
\* const it = lite3._iterate(0)
IterNew ==
    /\ phase = "build"
    /\ iter.at = "none"
    /\ iter' = newIterator(buffer, 0)
    /\ last' = Call("_iterate", <<>>, Null, 0)
    /\ ret' = This
    /\ before' = Cur
    /\ UNCHANGED <<buffer, buflen, initialized, nested, built, phase, other, spine>>

\* it.next()
IterNext ==
    /\ phase = "build"
    /\ iter.at \in {"created", "yielded"}
    /\ iter' = resumed(buffer, iter)
    /\ last' = Call("next", <<>>, Null, iter.root)
    /\ ret' = yielded(buffer, iter)
    /\ before' = Cur
    /\ UNCHANGED <<buffer, buflen, initialized, nested, built, phase, other, spine>>

\* the first initObject() / initArray()
FirstInitObject ==
    /\ phase = "new"
    /\ InitObject

FirstInitArray ==
    /\ phase = "new"
    /\ InitArray

NextIter ==
    \/ FirstInitObject
    \/ FirstInitArray
    \/ GrowObject
    \/ GrowArray
    \/ IterNew
    \/ IterNext

SpecIter == Init /\ [][NextIter]_vars

(***************************************************************************)
(* A handle made by fromBuffer from bytes whose tree is a cycle: the root  *)
(* has no keys and its child 0 is the node at offset 96, whose child 0 is  *)
(* that node itself, so that every descent exceeds TREE_HEIGHT_MAX.  The   *)
(* caller then makes one call of any operation on it.                      *)
(***************************************************************************)
\* a node of the given type without keys whose child 0 is at offset child0
emptyNode(type, child0) ==
    [i \in 1..NodeSIZE |-> IF i = 1 THEN type
                           ELSE IF i = 2 * SIZE_KC_OFFSET + 1 THEN child0
                           ELSE 0]

\* the bytes handed to fromBuffer: root, looping node and spare capacity
LoopBuffers ==
    {emptyNode(type, NodeSIZE) \o emptyNode(type, NodeSIZE) \o Zeros(spare) :
        type \in {TypeOBJECT, TypeARRAY}, spare \in {0, 2 * InitialSize}}

InitLoaded ==
    /\ buffer = Zeros(InitialSize)
    /\ buflen = 0
    /\ initialized = FALSE
    /\ nested = 0
    /\ built = 0
    /\ phase = "bytes"
    /\ \E b \in LoopBuffers : last = Call("bytes", <<>>, Bytes(b), 0)
    /\ ret = This
    /\ before = New(InitialSize)
    /\ iter = NoIterator
    /\ other = NoHandle
    /\ spine = NoSpine

\* Lite3.fromBuffer(bytes, 2 * Node.SIZE)
FromBuffer ==
    /\ phase = "bytes"
    /\ Apply(fromBuffer(last.value[2], 2 * NodeSIZE),
             Call("fromBuffer", <<>>, last.value, 0), This)
    /\ phase' = "loaded"
    /\ UNCHANGED <<nested, built>>

NextLoaded ==
    \/ FromBuffer
    \/ Set
    \/ SetNull
    \/ SetBool
    \/ SetInt64
    \/ SetFloat64
    \/ SetString
    \/ SetBytes
    \/ SetObject
    \/ SetArray
    \/ AppendValue

SpecLoaded == InitLoaded /\ [][NextLoaded]_vars

(***************************************************************************)
(* Reads: while the caller builds the container, and before the first      *)
(* init, it makes one call of a read operation on the root.  What a read   *)
(* does to the handle is what _checkInitialized does to it: the walks of   *)
(* _findKey, _iterate and _readValue assign nothing.                       *)
(***************************************************************************)
ReadIndexes == {0, 1, MaxItems}

Reading == phase \in {"new", "build"}

ReadAction(call, value) ==
    /\ Reading
    /\ Apply(checkInitialized(Cur), call, value)
    /\ phase' = "done"
    /\ UNCHANGED <<nested, built>>

Get == \E k \in ProbeKeys : ReadAction(Call("get", k, Null, 0), get(Cur, k, 0))

GetAt == \E i \in ReadIndexes : ReadAction(Call("getAt", <<>>, Num(i), 0), getAt(Cur, i, 0))

Has == \E k \in ProbeKeys : ReadAction(Call("has", k, Null, 0), has(Cur, k, 0))

Size == ReadAction(Call("size", <<>>, Null, 0), size(Cur, 0))

GetType == ReadAction(Call("getType", <<>>, Null, 0), getType(Cur))

Keys == ReadAction(Call("keys", <<>>, Null, 0), keys(Cur, 0))

Values == ReadAction(Call("values", <<>>, Null, 0), values(Cur, 0))

Entries == ReadAction(Call("entries", <<>>, Null, 0), entries(Cur, 0))

ReadJSON == ReadAction(Call("toJSON", <<>>, Null, 0), toJSON(Cur))

NextRead ==
    \/ FirstInitObject
    \/ FirstInitArray
    \/ GrowObject
    \/ GrowArray
    \/ Get
    \/ GetAt
    \/ Has
    \/ Size
    \/ GetType
    \/ Keys
    \/ Values
    \/ Entries
    \/ ReadJSON

SpecRead == Init /\ [][NextRead]_vars

(***************************************************************************)
(* 64-bit integers: on a fresh object the caller stores an integer with    *)
(* setInt64, and then a second one, under the same key or another.  The    *)
(* integers are numbers and BigInts on both sides of 2^31, of 2^53 and of  *)
(* their negatives, and the ends of the 64-bit range.                      *)
(***************************************************************************)
Int64Numbers ==
    { Num(0), Num(0 - 2), Num(2147483647), Num(0 - 2147483647),
      Num64(<<0, 0, 0, 128, 0, 0, 0, 0>>),
      Num64(<<255, 255, 255, 127, 255, 255, 255, 255>>),
      Num64(<<254, 255, 255, 255, 255, 255, 31, 0>>),
      Num64(MaxSafeInteger),
      Num64(MinSafeInteger) }

Int64BigInts ==
    { BigInt(<<5, 0, 0, 0, 0, 0, 0, 0>>),
      BigInt(MaxSafeInteger),
      BigInt(<<0, 0, 0, 0, 0, 0, 32, 0>>),
      BigInt(<<1, 0, 0, 0, 0, 0, 32, 0>>),
      BigInt(<<255, 255, 255, 255, 255, 255, 255, 127>>),
      BigInt(MinSafeInteger),
      BigInt(<<0, 0, 0, 0, 0, 0, 224, 255>>),
      BigInt(<<255, 255, 255, 255, 255, 255, 223, 255>>),
      BigInt(<<0, 0, 0, 0, 0, 0, 0, 128>>) }

Int64Keys == {kc, kd}

\* lite3.setInt64(key, value)
SetInt64Range ==
    /\ phase \in {"build", "stored"}
    /\ \E k \in Int64Keys, v \in Int64Numbers \cup Int64BigInts :
          Apply(setTyped(Cur, k, v, 0), Call("setInt64", k, v, 0), This)
    /\ phase' = IF phase = "build" THEN "stored" ELSE "done"
    /\ UNCHANGED <<nested, built>>

NextInt64 ==
    \/ FirstInitObject
    \/ SetInt64Range

SpecInt64 == Init /\ [][NextInt64]_vars

(***************************************************************************)
(* Key tags: for a key size, _writeKey's tag is written at offset 0 of a   *)
(* buffer and _skipKey is applied to it.  The key bytes themselves are     *)
(* left out: neither the tag nor its decoding depends on them.  The sizes  *)
(* are those on both sides of every threshold, and of 2^30.                *)
(***************************************************************************)
KeySizes ==
    (1..66) \cup (16381..16386) \cup (4194301..4194306) \cup (1073741821..1073741826)
    \cup {2147483647}

InitKeyTag ==
    /\ buffer = Zeros(2 * VAL_SIZE + 2)
    /\ buflen = 0
    /\ initialized = FALSE
    /\ nested = 0
    /\ built = 0
    /\ phase = "size"
    /\ \E n \in KeySizes : last = Call("size", <<>>, Num(n), 0)
    /\ ret = This
    /\ before = New(2 * VAL_SIZE + 2)
    /\ iter = NoIterator
    /\ other = NoHandle
    /\ spine = NoSpine

\* keyTagSize = getKeyTagSize(keyData.size); the tag of _writeKey(0, keyTagSize, ...)
WriteKeyTag ==
    /\ phase = "size"
    /\ Apply(writeKeyTag(Cur, 0, getKeyTagSize(last.value[2]), last.value[2]),
             Call("_writeKey", <<>>, last.value, 0), Num(getKeyTagSize(last.value[2])))
    /\ phase' = "tagged"
    /\ UNCHANGED <<nested, built>>

\* this._skipKey(0)
SkipKeyTag ==
    /\ phase = "tagged"
    /\ Apply(Cur, Call("_skipKey", <<>>, last.value, 0), Num(skipKey(buffer, 0)))
    /\ phase' = "skipped"
    /\ UNCHANGED <<nested, built>>

NextKeyTag ==
    \/ WriteKeyTag
    \/ SkipKeyTag

SpecKeyTag == InitKeyTag /\ [][NextKeyTag]_vars

(***************************************************************************)
(* Hashing: djb2Hash applied to a key.  The keys are the strings of up to  *)
(* MaxKeyLen characters among "a", "z", U+00E9 and U+0161, of one and of   *)
(* two UTF-8 bytes.                                                        *)
(***************************************************************************)
MaxKeyLen == 4

HashChars == {97, 122, 233, 353}

HashKeys == UNION {[1..n -> HashChars] : n \in 0..MaxKeyLen}

InitHash ==
    /\ buffer = Zeros(InitialSize)
    /\ buflen = 0
    /\ initialized = FALSE
    /\ nested = 0
    /\ built = 0
    /\ phase = "key"
    /\ \E k \in HashKeys : last = Call("key", k, Null, 0)
    /\ ret = This
    /\ before = New(InitialSize)
    /\ iter = NoIterator
    /\ other = NoHandle
    /\ spine = NoSpine

\* djb2Hash(key)
Djb2Hash ==
    /\ phase = "key"
    /\ Apply(Cur, Call("djb2Hash", last.key, Null, 0), <<"uint32", djb2Hash32(last.key).hi, djb2Hash32(last.key).lo>>)
    /\ phase' = "hashed"
    /\ UNCHANGED <<nested, built>>

NextHash == Djb2Hash

SpecHash == InitHash /\ [][NextHash]_vars

(***************************************************************************)
(* Reloading: while the caller builds the container it hands the bytes of  *)
(* the buffer getter to fromBuffer, whose handle has those bytes as its    *)
(* whole capacity, and makes one mutation call on that handle.             *)
(***************************************************************************)
\* Lite3.fromBuffer(lite3.buffer)
Reload ==
    /\ phase = "build"
    /\ Apply(fromBuffer(bufferOf(Cur), Len(bufferOf(Cur))),
             Call("fromBuffer", <<>>, Bytes(bufferOf(Cur)), 0), This)
    /\ phase' = "loaded"
    /\ UNCHANGED <<nested, built>>

SetReloaded == phase = "loaded" /\ Set

SetObjectReloaded == phase = "loaded" /\ SetObject

SetArrayReloaded == phase = "loaded" /\ SetArray

AppendValueReloaded == phase = "loaded" /\ AppendValue

NextReload ==
    \/ FirstInitObject
    \/ FirstInitArray
    \/ GrowObject
    \/ GrowArray
    \/ Reload
    \/ SetReloaded
    \/ SetObjectReloaded
    \/ SetArrayReloaded
    \/ AppendValueReloaded

SpecReload == Init /\ [][NextReload]_vars

(***************************************************************************)
(* Long keys: on a fresh object the caller sets a key to a scalar and then *)
(* makes one more call with a key, setObject, setArray or a set of a       *)
(* string.  The keys are runs of one letter whose encoded sizes are on     *)
(* both sides of the 1-byte key tag limit and of the size of a node.       *)
(***************************************************************************)
RepKey(n, c) == [i \in 1..n |-> c]

LongKeys ==
    {RepKey(1, 97), RepKey(62, 97), RepKey(63, 97), RepKey(93, 97), RepKey(94, 97),
     RepKey(95, 98), RepKey(100, 98)}

LongValues == {Null, Num(55), Str(<<120, 121>>)}

\* lite3.set(key, value)
SetLongKey ==
    /\ phase \in {"build", "stored"}
    /\ \E k \in LongKeys, v \in (IF phase = "build" THEN LongValues ELSE {Str(<<120, 121, 122>>)}) :
          Apply(set(Cur, k, v, 0), Call("set", k, v, 0), This)
    /\ phase' = IF phase = "build" THEN "stored" ELSE "done"
    /\ UNCHANGED <<nested, built>>

NestLongKey(op, type) ==
    /\ phase = "stored"
    /\ \E k \in LongKeys :
          /\ Apply(setNestedImpl(Cur, k, 0, type).s, Call(op, k, Null, 0),
                   Num(setNestedImpl(Cur, k, 0, type).ret))
          /\ nested' = setNestedImpl(Cur, k, 0, type).ret
    /\ phase' = "done"
    /\ UNCHANGED built

\* lite3.setObject(key)
SetObjectLongKey == NestLongKey("setObject", TypeOBJECT)

\* lite3.setArray(key)
SetArrayLongKey == NestLongKey("setArray", TypeARRAY)

NextLongKey ==
    \/ FirstInitObject
    \/ SetLongKey
    \/ SetObjectLongKey
    \/ SetArrayLongKey

SpecLongKey == Init /\ [][NextLongKey]_vars

(***************************************************************************)
(* Keys in mixed order: the caller builds an object from keys it has not   *)
(* set before, taking each next key either from the low keys "a", "b", ... *)
(* or from the keys above them, so that a new hash goes to the right end   *)
(* of the tree, to its left end or between hashes already there; or it     *)
(* builds an array by appending.                                           *)
(***************************************************************************)
MaxLowKeys == 2

\* how many of the low keys the object holds
LowKeysSet == Cardinality({i \in 1..MaxLowKeys : has(Cur, KeyOrder[i], 0) = Bool(TRUE)})

SetFreshKey(key) ==
    /\ phase = "build"
    /\ getNodeType(buffer, 0) = TypeOBJECT
    /\ built < MaxKeys
    /\ Apply(set(Cur, key, ChainValue(built + 1), 0),
             Call("set", key, ChainValue(built + 1), 0), This)
    /\ built' = built + 1
    /\ UNCHANGED <<nested, phase>>

\* lite3.set(key, value) with the next of the low keys
SetLowKey == LowKeysSet < MaxLowKeys /\ SetFreshKey(KeyOrder[LowKeysSet + 1])

\* lite3.set(key, value) with the next of the keys above the low keys
SetHighKey == SetFreshKey(KeyOrder[MaxLowKeys + (built - LowKeysSet) + 1])

NextOrder ==
    \/ FirstInitObject
    \/ FirstInitArray
    \/ SetLowKey
    \/ SetHighKey
    \/ GrowArray

SpecOrder == Init /\ [][NextOrder]_vars

(***************************************************************************)
(* Splits on their own: the caller builds an object from keys in mixed or  *)
(* in descending order, or an array, and at any point a mutation reaches   *)
(* the call of _splitNode in _findOrInsertKey for a full node on its way   *)
(* down; the state is observed as that call leaves it, before the descent  *)
(* goes on.                                                                *)
(***************************************************************************)
\* the nodes of the B-tree at nodeOffset, each with its parent and its index
\* in the parent, as the descent of _findOrInsertKey holds them
RECURSIVE treeLinks(_, _, _, _, _)
treeLinks(buf, nodeOffset, parent, parentIndex, levels) ==
    IF levels = 0 \/ getNodeKeyCount(buf, nodeOffset) = OutOfRange THEN {}
    ELSE {<<nodeOffset, parent, parentIndex>>}
         \cup (IF hasChildren(buf, nodeOffset)
               THEN UNION {treeLinks(buf, getNodeChildOffset(buf, nodeOffset, i),
                                     nodeOffset, i, levels - 1) :
                              i \in 0..getNodeKeyCount(buf, nodeOffset)}
               ELSE {})

\* the full nodes a descent can be at when it calls _splitNode: a full root,
\* or a full node whose parent the descent has left with fewer than 7 keys
SplittableNodes ==
    {t \in treeLinks(buffer, 0, NoParent, 0, TREE_HEIGHT_MAX) :
        /\ getNodeKeyCount(buffer, t[1]) = KEY_COUNT_MAX
        /\ t[2] # NoParent => getNodeKeyCount(buffer, t[2]) < KEY_COUNT_MAX}

\* the descending keys "z", "y", ...
DownKey(i) == KeyOrder[Len(KeyOrder) + 1 - i]

GoingDown == has(Cur, DownKey(1), 0) = Bool(TRUE)

\* the build loop of an object in descending key order
SetDownKey == (built = 0 \/ GoingDown) /\ SetFreshKey(DownKey(built + 1))

SetLowKeyUp == ~GoingDown /\ SetLowKey

SetHighKeyUp == ~GoingDown /\ SetHighKey

\* _setImpl up to the call of _splitNode for the full node t[1] under t[2]:
\* _ensureSpace for a 1-byte key and a null, then the split
SplitNode ==
    /\ phase = "build"
    /\ initialized
    /\ \E t \in SplittableNodes :
          Apply(splitNode(ensureSpace(Cur, 1 + 2 + VAL_SIZE + 2 * NodeSIZE), 0, t[1], t[2], t[3]),
                Call("splitNode", <<>>, Arr(<<Num(t[2]), Num(t[3])>>), t[1]), This)
    /\ phase' = "done"
    /\ UNCHANGED <<nested, built>>

NextSplit ==
    \/ FirstInitObject
    \/ FirstInitArray
    \/ SetLowKeyUp
    \/ SetHighKeyUp
    \/ SetDownKey
    \/ GrowArray
    \/ SplitNode

SpecSplit == Init /\ [][NextSplit]_vars

(***************************************************************************)
(* Lookups on imported bytes: fromBuffer is handed two nodes, a root       *)
(* without keys or with the one hash of "c", whose child 0 is absent, is   *)
(* the second node (whose child 0 is that node itself: a cycle) or lies    *)
(* past the two nodes; the caller then makes one lookup.                   *)
(***************************************************************************)
\* the node with one more key, of the given hash, than node has
withHash(node, hash) ==
    [i \in 1..NodeSIZE |->
        IF i \in 5..8 THEN (hash \div Pow2(8 * (i - 5))) % 256
        ELSE IF i = SIZE_KC_OFFSET + 1 THEN node[i] + 1
        ELSE node[i]]

ImportedRoots ==
    {emptyNode(type, child0) : type \in {TypeOBJECT, TypeARRAY},
                               child0 \in {0, NodeSIZE, 2 * NodeSIZE + NodeALIGNMENT}}

ImportedBuffers ==
    {root \o emptyNode(TypeOBJECT, NodeSIZE) : root \in ImportedRoots}
    \cup {withHash(root, getKeyData(kc).hash) \o emptyNode(TypeOBJECT, NodeSIZE) :
            root \in ImportedRoots}

InitImported ==
    /\ buffer = Zeros(InitialSize)
    /\ buflen = 0
    /\ initialized = FALSE
    /\ nested = 0
    /\ built = 0
    /\ phase = "bytes"
    /\ \E b \in ImportedBuffers : last = Call("bytes", <<>>, Bytes(b), 0)
    /\ ret = This
    /\ before = New(InitialSize)
    /\ iter = NoIterator
    /\ other = NoHandle
    /\ spine = NoSpine

Lookup(call, value) ==
    /\ phase = "loaded"
    /\ Apply(checkInitialized(Cur), call, value)
    /\ phase' = "done"
    /\ UNCHANGED <<nested, built>>

\* lite3.get(key)
LookupGet == \E k \in ProbeKeys : Lookup(Call("get", k, Null, 0), get(Cur, k, 0))

\* lite3.has(key)
LookupHas == \E k \in ProbeKeys : Lookup(Call("has", k, Null, 0), has(Cur, k, 0))

\* lite3.getAt(index)
LookupGetAt ==
    \E i \in ReadIndexes : Lookup(Call("getAt", <<>>, Num(i), 0), getAt(Cur, i, 0))

NextImported ==
    \/ FromBuffer
    \/ LookupGet
    \/ LookupHas
    \/ LookupGetAt

SpecImported == InitImported /\ [][NextImported]_vars

(***************************************************************************)
(* The root: the build and the further calls of the main specification,    *)
(* init calls on an initialized handle included, together with the call of *)
(* _splitNode observed on its own.                                         *)
(***************************************************************************)
NextRoot ==
    \/ InitObject
    \/ InitArray
    \/ GrowObject
    \/ GrowArray
    \/ Set
    \/ SetObject
    \/ SetArray
    \/ AppendValue
    \/ SplitNode

SpecRoot == Init /\ [][NextRoot]_vars

(***************************************************************************)
(* A tall tree: the caller builds an object from many keys.  The first 8   *)
(* ascend and split the root; the next 4 lie between the keys of the       *)
(* leftmost leaf and fill it; the others ascend again, so that the root    *)
(* fills up while that leaf stays full.  At any point the caller makes one *)
(* further set, of a key below or above all the others or of a key the     *)
(* object holds.                                                           *)
(***************************************************************************)
MaxDeepKeys == 40

\* key number i of the build: every second character from '"' on, with the
\* characters around the first three of them in places 9 to 12
DeepKey(i) ==
    IF i <= KEY_COUNT_MAX + 1 THEN Key(32 + 2 * i)
    ELSE IF i <= KEY_COUNT_MAX + KEY_COUNT_MIN + 2 THEN Key(33 + 2 * (i - KEY_COUNT_MAX - 2))
    ELSE Key(32 + 2 * (i - KEY_COUNT_MIN - 1))

DeepProbeKeys == {Key(32), Key(126), DeepKey(1), DeepKey(built)}

\* the build loop: lite3.set(key, n)
GrowDeep ==
    /\ phase = "build"
    /\ built < MaxDeepKeys
    /\ Apply(set(Cur, DeepKey(built + 1), Num(built + 1), 0),
             Call("set", DeepKey(built + 1), Num(built + 1), 0), This)
    /\ built' = built + 1
    /\ UNCHANGED <<nested, phase>>

\* lite3.set(key, null)
SetDeep ==
    /\ phase = "build"
    /\ \E k \in DeepProbeKeys : Apply(set(Cur, k, Null, 0), Call("set", k, Null, 0), This)
    /\ phase' = "done"
    /\ UNCHANGED <<nested, built>>

NextDeep ==
    \/ FirstInitObject
    \/ GrowDeep
    \/ SetDeep

SpecDeep == Init /\ [][NextDeep]_vars

(***************************************************************************)
(* Two handles, as in examples/basic-usage.js: a handle is built, a second *)
(* one is made of its bytes by                                             *)
(*     received = Lite3.fromBuffer(lite3.buffer, lite3.length)             *)
(* and then either handle is mutated.  lite3.buffer is a view of the array *)
(* of the first handle (subarray), and fromBuffer copies the bytes of the  *)
(* view into an array of its own with _buffer.set(buffer).                 *)
(***************************************************************************)
\* faulty variant of receivedFrom: the new handle keeps the view it was given
\* (lite3._buffer = buffer) and copies nothing
receivedView(s, length) ==
    [buf |-> fromBuffer(bufferOf(s), length).buf, len |-> length, init |-> TRUE,
     own |-> FALSE]

\* Lite3.fromBuffer(s.buffer, length): new Lite3(buffer.length) and
\* _buffer.set(buffer) give the new handle a copy in an array of its own
receivedFrom(s, length) ==
    [buf |-> fromBuffer(bufferOf(s), length).buf, len |-> length, init |-> TRUE,
     own |-> TRUE]

\* the first handle after an operation on the second left the second as o:
\* as it was, unless the second handle wrote into a view of its array
seenByFirst(o) ==
    IF other.own \/ Len(o.buf) # Len(other.buf) THEN buffer
    ELSE [i \in 1..Len(buffer) |-> IF i <= Len(o.buf) THEN o.buf[i] ELSE buffer[i]]

\* the two handles after an operation on the second left it as o
ApplyOther(o, call, value) ==
    /\ buffer' = seenByFirst(o)
    /\ other' = [buf |-> o.buf, len |-> o.len, init |-> o.init,
                 own |-> (other.own \/ Len(o.buf) # Len(other.buf))]
    /\ last' = call
    /\ ret' = IF OK(o) THEN value ELSE Throw(o.err)
    /\ before' = Cur
    /\ phase' = "other"
    /\ UNCHANGED <<buflen, initialized, nested, built, iter, spine>>

Receive ==
    /\ phase = "build"
    /\ other' = receivedFrom(Cur, buflen)
    /\ last' = Call("fromBuffer", <<>>, Bytes(bufferOf(Cur)), 0)
    /\ ret' = This
    /\ before' = Cur
    /\ phase' = "loaded"
    /\ UNCHANGED <<buffer, buflen, initialized, nested, built, iter, spine>>

\* received.set(key, value)
SetReceived ==
    /\ phase = "loaded"
    /\ other.init
    /\ \E x \in Args(ProbeValues) :
          ApplyOther(set(OtherHandle, x[1], x[2], x[3]), Call("set", x[1], x[2], x[3]), This)

\* received.setObject(key)
SetObjectReceived ==
    /\ phase = "loaded"
    /\ other.init
    /\ \E x \in Args({Null}) :
          LET r == setNestedImpl(OtherHandle, x[1], x[3], TypeOBJECT)
          IN  ApplyOther(r.s, Call("setObject", x[1], Null, x[3]), Num(r.ret))

\* received.appendValue(value)
AppendValueReceived ==
    /\ phase = "loaded"
    /\ other.init
    /\ \E v \in ProbeValues :
          ApplyOther(appendValue(OtherHandle, v, 0), Call("appendValue", <<>>, v, 0), This)

\* a mutation of the first handle when there is a second one
MutateSender ==
    /\ phase \in {"loaded", "fill"}
    /\ other.init
    /\ (Set \/ SetObject \/ SetArray \/ AppendValue)

NextTwo ==
    \/ FirstInitObject
    \/ FirstInitArray
    \/ GrowObject
    \/ GrowArray
    \/ Receive
    \/ SetReceived
    \/ SetObjectReceived
    \/ AppendValueReceived
    \/ MutateSender

SpecTwo == Init /\ [][NextTwo]_vars

(***************************************************************************)
(* Long arrays.  An append to an array of scalars inserts the hash         *)
(* index = getNodeSize(root), which is above every hash of the tree, so    *)
(* _findOrInsertKey takes the last child of every node it passes           *)
(* (i = keyCount) and reads and writes only the key counts of the nodes    *)
(* on the path from the root to the rightmost leaf.  The definitions below *)
(* follow that path alone, as the sequence of its key counts from the root *)
(* down, so that arrays of millions of elements can be followed; PathAgrees *)
(* compares them with the bytes for the arrays the bytes can be followed   *)
(* for.                                                                    *)
(***************************************************************************)
TallItems == 2097152
MaxExtra == 60
MaxPathItems == 132

\* _splitNode on the path: a root keeps the median alone over two nodes of
\* KEY_COUNT_MIN keys; another node hands the median to its parent and the
\* path goes on in the new sibling of KEY_COUNT_MIN keys
splitOnSpine(sp, i) ==
    IF i = 1 THEN <<1, KEY_COUNT_MIN>> \o Tail(sp)
    ELSE [sp EXCEPT ![i - 1] = @ + 1, ![i] = KEY_COUNT_MIN]

\* the loop of _findOrInsertKey for a hash above all others, at the node
\* number i of the path after nodeWalks steps down
RECURSIVE insertOnSpine(_, _, _)
insertOnSpine(sp, i, nodeWalks) ==
    LET split == IF sp[i] = KEY_COUNT_MAX THEN splitOnSpine(sp, i) ELSE sp
    IN  IF i < Len(split)
        THEN IF nodeWalks + 1 > TREE_HEIGHT_MAX THEN [sp |-> split, err |-> "EBADMSG"]
             ELSE insertOnSpine(split, i + 1, nodeWalks + 1)
        ELSE [sp |-> [split EXCEPT ![i] = @ + 1], err |-> "ok"]

\* appendValue(null, 0) on the path; nothing more is appended once an
\* append has thrown
appendOnSpine(r) == IF r.err # "ok" THEN r ELSE insertOnSpine(r.sp, 1, 0)

\* the loop of fromJSON over an array of k nulls
RECURSIVE appendAllOnSpine(_, _)
appendAllOnSpine(r, k) ==
    IF k = 0 THEN r
    ELSE IF k = 1 THEN appendOnSpine(r)
    ELSE CHOOSE x \in {appendAllOnSpine(h, k - (k \div 2)) :
                          h \in {appendAllOnSpine(r, k \div 2)}} : TRUE

\* _findKey for the hash appended last, which is in the rightmost leaf: one
\* step down for every node of the path below the root
findOnSpine(sp) == IF Len(sp) - 1 > TREE_HEIGHT_MAX THEN "EBADMSG" ELSE "ok"

\* the key counts from the node at nodeOffset down its last children
RECURSIVE rightSpine(_, _, _)
rightSpine(buf, nodeOffset, levels) ==
    LET keyCount == getNodeKeyCount(buf, nodeOffset)
    IN  IF levels = 0 \/ keyCount = OutOfRange THEN <<>>
        ELSE IF hasChildren(buf, nodeOffset)
             THEN <<keyCount>> \o rightSpine(buf, getNodeChildOffset(buf, nodeOffset, keyCount),
                                             levels - 1)
        ELSE <<keyCount>>

\* Lite3.fromJSON(new Array(k).fill(null))
FromJSONNulls ==
    /\ phase = "new"
    /\ \E k \in {0, TallItems} :
          \E r \in {appendAllOnSpine([sp |-> NoSpine, err |-> "ok"], k)} :
              /\ spine' = r.sp
              /\ ret' = IF r.err = "ok" THEN This ELSE Throw(r.err)
              /\ built' = k
              /\ last' = Call("fromJSON", <<>>, Num(k), 0)
    /\ phase' = "tall"
    /\ UNCHANGED <<buffer, buflen, initialized, nested, before, iter, other>>

\* lite3.appendValue(null, 0)
AppendNull ==
    /\ phase = "tall"
    /\ ret = This
    /\ \E k \in {0, TallItems} : k <= built /\ built < k + MaxExtra
    /\ \E r \in {appendOnSpine([sp |-> spine, err |-> "ok"])} :
          /\ spine' = r.sp
          /\ ret' = IF r.err = "ok" THEN This ELSE Throw(r.err)
    /\ built' = built + 1
    /\ last' = Call("appendValue", <<>>, Null, 0)
    /\ UNCHANGED <<buffer, buflen, initialized, nested, before, iter, other, phase>>

\* lite3.getAt(index, 0) of the element appended last
GetAtLast ==
    /\ phase = "tall"
    /\ built > 0
    /\ ret' = IF findOnSpine(spine) = "ok" THEN Null ELSE Throw(findOnSpine(spine))
    /\ last' = Call("getAt", <<>>, Num(built - 1), 0)
    /\ phase' = "read"
    /\ UNCHANGED <<buffer, buflen, initialized, nested, built, before, iter, other, spine>>

\* the bytes of an array of nulls, as far as they can be followed
GrowNulls ==
    /\ phase = "build"
    /\ getNodeType(buffer, 0) = TypeARRAY
    /\ built < MaxPathItems
    /\ Apply(appendValue(Cur, Null, 0), Call("appendValue", <<>>, Null, 0), This)
    /\ built' = built + 1
    /\ UNCHANGED <<nested, phase>>

NextTall == FirstInitArray \/ GrowNulls \/ FromJSONNulls \/ AppendNull \/ GetAtLast

SpecTall == Init /\ [][NextTall]_vars

\* the path followed alone is the path of the bytes
PathAgrees ==
    (phase = "build" /\ ret = This)
        => rightSpine(buffer, 0, TREE_HEIGHT_MAX + 2)
              = appendAllOnSpine([sp |-> NoSpine, err |-> "ok"], built).sp

(***************************************************************************)
(* Properties                                                              *)
(***************************************************************************)
\* a literal as toJSON hands it back: an object is the function from its
\* keys to their values (a later entry of a key replaces an earlier one)
RECURSIVE Expect(_), ExpectPairs(_, _)
Expect(v) ==
    IF Kind(v) = "obj" THEN Obj(ExpectPairs(v[2], EmptyObject))
    ELSE IF Kind(v) = "arr" THEN Arr([i \in 1..Len(v[2]) |-> Expect(v[2][i])])
    ELSE v

ExpectPairs(pairs, f) ==
    IF pairs = <<>> THEN f
    ELSE ExpectPairs(Tail(pairs), Put(f, Head(pairs)[1], Expect(Head(pairs)[2])))

\* the hashes of the entries of the tree at nodeOffset, in order, down to
\* the given number of levels
RECURSIVE treeHashes(_, _, _), nodeHashes(_, _, _, _, _)
treeHashes(buf, nodeOffset, levels) ==
    IF levels = 0 \/ getNodeKeyCount(buf, nodeOffset) = OutOfRange THEN <<>>
    ELSE nodeHashes(buf, nodeOffset, 0, getNodeKeyCount(buf, nodeOffset), levels)

nodeHashes(buf, nodeOffset, i, keyCount, levels) ==
    (IF hasChildren(buf, nodeOffset)
     THEN treeHashes(buf, getNodeChildOffset(buf, nodeOffset, i), levels - 1) ELSE <<>>)
    \o (IF i < keyCount
        THEN <<getNodeHash(buf, nodeOffset, i)>>
             \o nodeHashes(buf, nodeOffset, i + 1, keyCount, levels)
        ELSE <<>>)

\* whether the descent from rootOffset towards hash meets a node of 7 keys
RECURSIVE FullOnPath(_, _, _, _)
FullOnPath(buf, nodeOffset, hash, levels) ==
    LET keyCount == getNodeKeyCount(buf, nodeOffset)
        i == scanNode(buf, nodeOffset, keyCount, hash, 0)
    IN  IF levels = 0 \/ keyCount = OutOfRange THEN FALSE
        ELSE IF keyCount = KEY_COUNT_MAX THEN TRUE
        ELSE IF i < keyCount /\ getNodeHash(buf, nodeOffset, i) = hash THEN FALSE
        ELSE IF hasChildren(buf, nodeOffset)
             THEN FullOnPath(buf, getNodeChildOffset(buf, nodeOffset, i), hash, levels - 1)
        ELSE FALSE

\* the keys the caller ever uses
WatchedKeys == {KeyOrder[i] : i \in 1..(MaxKeys + 1)} \cup ProbeKeys \cup FillKeys

ScalarKinds == {"null", "bool", "int", "int64", "bigint", "float", "str", "bytes"}

SetOps == {"set", "setNull", "setBool", "setInt64", "setFloat64", "setString", "setBytes"}

\* the last call was a set that returned, made on an initialized handle at a
\* node that was an object
SetDone ==
    /\ last.op \in SetOps
    /\ Kind(ret) # "throw"
    /\ before.init
    /\ getNodeType(before.buf, last.offset) = TypeOBJECT

ScalarSetDone == SetDone /\ IsScalar(last.value)

LastHash == getKeyData(last.key).hash

\* the entry of the last call's key as it was before the call
EntryBefore == findKey(before.buf, last.offset, LastHash)

ValOffsetBefore ==
    skipKey(before.buf, getNodeKvOffset(before.buf, EntryBefore.nodeOffset, EntryBefore.index))

\* C1: on an initialized object a set(k, v) of a scalar makes the get(k) that
\* follows return v, whether k is new or present and whatever the key counts
\* of the nodes on the path.
C1_GetAfterSet == ScalarSetDone => get(Cur, last.key, last.offset) = last.value

NestedNodes(buf, nodeOffset) ==
    LET kvs == iterate(buf, nodeOffset)
        valOffset(kv) == IF getNodeType(buf, nodeOffset) = TypeARRAY THEN kv
                         ELSE skipKey(buf, kv)
    IN  {valOffset(kvs[i]) : i \in {j \in 1..Len(kvs) :
            byteAt(buf, valOffset(kvs[j])) \in {TypeOBJECT, TypeARRAY}}}

SizeIsCount(buf, nodeOffset) == getNodeSize(buf, nodeOffset) = Len(iterate(buf, nodeOffset))

\* C3: after any sequence of sets and appends the size of every object or
\* array node is the number of entries its enumeration yields.
C3_SizeIsCount ==
    (initialized /\ Kind(ret) # "throw"
        /\ getNodeType(buffer, 0) \in {TypeOBJECT, TypeARRAY})
    => /\ SizeIsCount(buffer, 0)
       /\ \A n \in NestedNodes(buffer, 0) : SizeIsCount(buffer, n)

\* C4: on an array root, after appending N values in order, size() is N and
\* toJSON() is the sequence of the N values.
C4_ArrayAppend ==
    (phase = "build" /\ initialized /\ getNodeType(buffer, 0) = TypeARRAY)
    => /\ size(Cur, 0) = Num(built)
       /\ toJSON(Cur) = Arr([i \in 1..built |-> Expect(ItemOrder(i))])

\* C5: toJSON(fromJSON(v)) equals v up to object key order, for every nested
\* value v, objects of 8 or more keys and nested values at any position
\* included.
C5_RoundTrip == last.op = "toJSON" => ret = Expect(last.value)

\* C6: fromBuffer(h.buffer, h.length) is a handle whose toJSON() equals
\* h.toJSON(), for every handle reached by init and mutations.
C6_FromBuffer ==
    initialized => toJSON(fromBuffer(bufferOf(Cur), buflen)) = toJSON(Cur)

\* the last call set a scalar on a key that was present, the new value no
\* larger in place than the old one
OverwriteNotLarger ==
    /\ ScalarSetDone
    /\ EntryBefore.found
    /\ getValueSize(before.buf, ValOffsetBefore) # OutOfRange
    /\ VAL_SIZE + dataSizeOf(last.value) <= getValueSize(before.buf, ValOffsetBefore)

NoFullOnPath == ~FullOnPath(before.buf, last.offset, LastHash, TREE_HEIGHT_MAX)

\* C7 as stated: a set on an existing key whose new value is no larger in
\* place than the old one leaves the used length unchanged, for every tree
\* shape.
C7_AnyShape == OverwriteNotLarger => buflen = before.len

\* C7: a set on an existing key whose new value is no larger in place than
\* the old one leaves the used length unchanged, provided no node on the
\* descent path to the key holds 7 keys.
C7_InPlace == (OverwriteNotLarger /\ NoFullOnPath) => buflen = before.len

\* an in-place overwrite in a tree that has split
C7_InPlaceBelowRoot ==
    /\ OverwriteNotLarger
    /\ NoFullOnPath
    /\ hasChildren(before.buf, 0)
    /\ buflen = before.len
    /\ get(Cur, last.key, 0) = last.value

NoDuplicateHashes(buf, nodeOffset) ==
    LET hs == treeHashes(buf, nodeOffset, TREE_HEIGHT_MAX)
    IN  \A i, j \in 1..Len(hs) : hs[i] = hs[j] => i = j

\* C8: a set whose key hash is already in the tree changes neither size()
\* nor the number of enumerated entries, and no two entries of one tree
\* carry the same hash.
C8_ExistingHash ==
    (ScalarSetDone /\ EntryBefore.found)
    => /\ size(Cur, last.offset) = size(before, last.offset)
       /\ Len(iterate(buffer, last.offset)) = Len(iterate(before.buf, last.offset))
       /\ NoDuplicateHashes(buffer, last.offset)

\* C9: set(k, v) with v a nested object or array, on a key that holds a
\* scalar, makes get(k) return v and leaves every other key as it was.
C9_ScalarToNested ==
    (SetDone /\ Kind(last.value) \in {"obj", "arr"}
        /\ Kind(get(before, last.key, last.offset)) \in ScalarKinds)
    => /\ get(Cur, last.key, last.offset) = Expect(last.value)
       /\ \A k \in WatchedKeys \ {last.key} :
             get(Cur, k, last.offset) = get(before, k, last.offset)

\* the last call was setObject or setArray, returned, and its key held a
\* nested object or array
ClearNested ==
    /\ last.op \in {"setObject", "setArray"}
    /\ Kind(ret) # "throw"
    /\ before.init
    /\ getNodeType(before.buf, last.offset) = TypeOBJECT
    /\ EntryBefore.found
    /\ byteAt(before.buf, ValOffsetBefore) \in {TypeOBJECT, TypeARRAY}

Cleared ==
    /\ ret = Num(ValOffsetBefore)
    /\ buflen = before.len
    /\ get(Cur, last.key, last.offset)
         = (IF last.op = "setObject" THEN Obj(EmptyObject) ELSE Arr(<<>>))

KeyedOps == SetOps \cup {"setObject", "setArray"}

\* the root is an object and every call since its initialization was a keyed
\* set at the root that returned: the build loop's, then at most one more
RootObjectState ==
    /\ initialized
    /\ getNodeType(buffer, 0) = TypeOBJECT
    /\ \/ phase = "build"
       \/ /\ phase \in {"done", "fill"}
          /\ last.op \in KeyedOps
          /\ last.offset = 0
          /\ Kind(ret) # "throw"
          /\ before.init
          /\ getNodeType(before.buf, 0) = TypeOBJECT

\* the keys set at the root since its initialization
KeysSet ==
    {KeyOrder[i] : i \in 1..built} \cup (IF phase = "build" THEN {} ELSE {last.key})

HashesOf(ks) == {getKeyData(k).hash : k \in ks}

\* keys(), values() and entries() hold one entry per hash of hashes, by
\* ascending hash, each value the one get returns for its key
EnumeratesBy(s, hashes) ==
    LET ks == keys(s, 0)
        n == Len(ks[2])
        key(i) == ks[2][i][2]
    IN  /\ Kind(ks) = "arr"
        /\ \A i \in 1..(n - 1) : getKeyData(key(i)).hash < getKeyData(key(i + 1)).hash
        /\ HashesOf({key(i) : i \in 1..n}) = hashes
        /\ values(s, 0) = Arr([i \in 1..n |-> get(s, key(i), 0)])
        /\ entries(s, 0) = Arr([i \in 1..n |-> Arr(<<Str(key(i)), get(s, key(i), 0)>>)])

\* C11: keys(), values() and entries() of an object return exactly one entry
\* per distinct key hash set since initialization, in ascending hash order,
\* and the value of each entry equals get of that key.
C11_Enumeration == RootObjectState => EnumeratesBy(Cur, HashesOf(KeysSet))

C13_LaterWins ==
    /\ (phase = "pair-first" /\ Kind(ret) # "throw")
          => size(Cur, 0) = Num(getNodeSize(before.buf, 0) + 1)
    /\ (phase = "pair-second" /\ Kind(ret) # "throw")
          => \A p \in CollidePairs :
                (p[2] = last.key /\ p[1] # p[2]
                    /\ getKeyData(p[1]).hash = getKeyData(p[2]).hash)
                => /\ get(Cur, p[1], 0) = last.value
                   /\ get(Cur, p[2], 0) = last.value
                   /\ size(Cur, 0) = size(before, 0)

MutationOps == KeyedOps \cup {"appendValue"}

\* the last call was a mutation that returned, made on an initialized handle
\* at a node of the type the operation is for
MutationDone ==
    /\ last.op \in MutationOps
    /\ Kind(ret) # "throw"
    /\ before.init
    /\ getNodeType(before.buf, last.offset)
         = (IF last.op = "appendValue" THEN TypeARRAY ELSE TypeOBJECT)

\* C14: every mutation call made from outside (set with any value, a typed
\* setter, setObject, setArray, appendValue with any value) increases the
\* generation of the root by exactly one, modulo 2^24.
C14_GenerationStep ==
    MutationDone =>
        getNodeGeneration(buffer, 0) = (getNodeGeneration(before.buf, 0) + 1) % 16777216

\* C15: an iterator compares the generation of the root it captured when it
\* was constructed with the current one on each step; once a mutation has
\* changed the generation, a step yields no entry.
C15_FailFast ==
    (last.op = "next" /\ getNodeGeneration(buffer, 0) # iter.gen0) => Kind(ret) # "arr"

\* C16: on a handle on which neither initObject nor initArray was called,
\* get, has, size and toJSON fail with invalid_argument, and so does every
\* mutation (set, the typed setters, setObject, setArray, appendValue), which
\* leaves the bytes and the used length as they were.
C16_Uninitialized ==
    /\ ~initialized =>
          /\ \A k \in WatchedKeys : /\ get(Cur, k, 0) = Throw("EINVAL")
                                    /\ has(Cur, k, 0) = Throw("EINVAL")
          /\ size(Cur, 0) = Throw("EINVAL")
          /\ toJSON(Cur) = Throw("EINVAL")
    /\ (last.op \in MutationOps /\ ~before.init) =>
          /\ ret = Throw("EINVAL")
          /\ buffer = before.buf
          /\ buflen = before.len

\* C17: an operation on a node of the wrong type (a keyed set or get on an
\* array node, appendValue or getAt on an object node) fails with
\* invalid_argument and leaves the buffer unchanged.
C17_WrongNodeType ==
    /\ (initialized /\ getNodeType(buffer, 0) = TypeARRAY)
          => \A k \in WatchedKeys : get(Cur, k, 0) = Throw("EINVAL")
    /\ (initialized /\ getNodeType(buffer, 0) = TypeOBJECT)
          => \A i \in 0..MaxItems : getAt(Cur, i, 0) = Throw("EINVAL")
    /\ (last.op \in MutationOps /\ before.init
          /\ getNodeType(before.buf, last.offset)
               = (IF last.op = "appendValue" THEN TypeOBJECT ELSE TypeARRAY))
          => /\ ret = Throw("EINVAL")
             /\ buffer = before.buf
             /\ buflen = before.len

\* whether v, or a value nested inside it, has a runtime type set and
\* appendValue do not support
RECURSIVE HasUnsupported(_)
HasUnsupported(v) ==
    IF Kind(v) = "arr" THEN \E i \in 1..Len(v[2]) : HasUnsupported(v[2][i])
    ELSE IF Kind(v) = "obj" THEN \E i \in 1..Len(v[2]) : HasUnsupported(v[2][i][2])
    ELSE ~IsScalar(v)

\* C18: a set or appendValue whose value, or a value nested inside it, has an
\* unsupported runtime type fails with invalid_argument and leaves the bytes
\* (size and generation among them) and the used length as they were.
C18_Unsupported ==
    (last.op \in {"set", "appendValue"} /\ before.init /\ HasUnsupported(last.value)
        /\ getNodeType(before.buf, last.offset)
             = (IF last.op = "appendValue" THEN TypeARRAY ELSE TypeOBJECT))
    => /\ ret = Throw("EINVAL")
       /\ buffer = before.buf
       /\ buflen = before.len

\* C19: when an operation fails with bad_message because the descent
\* exceeded the tree-height limit, the used bytes (the generation of the root
\* among them) and the used length are what they were before the call.
C19_HeightFaultFrame ==
    (last.op \in MutationOps /\ ret = Throw("EBADMSG"))
    => /\ bufferOf(Cur) = bufferOf(before)
       /\ buflen = before.len

\* C20: initObject / initArray may be called again on a handle in any state;
\* afterwards the root has the requested type, size() is 0, toJSON() is the
\* empty container, get and has find no key set before, and the used length
\* is 96.
C20_Reinit ==
    (last.op \in {"initObject", "initArray"} /\ Kind(ret) # "throw")
    => /\ initialized
       /\ getNodeType(buffer, 0) = (IF last.op = "initObject" THEN TypeOBJECT ELSE TypeARRAY)
       /\ size(Cur, 0) = Num(0)
       /\ toJSON(Cur) = (IF last.op = "initObject" THEN Obj(EmptyObject) ELSE Arr(<<>>))
       /\ \A k \in WatchedKeys : /\ get(Cur, k, 0) = Undefined
                                 /\ has(Cur, k, 0) = Bool(FALSE)
       /\ keys(Cur, 0) = Arr(<<>>)
       /\ buflen = NodeSIZE

\* initArray() on an object whose tree had split, the key "a" found before
C20_ArrayOverSplitObject ==
    /\ last.op = "initArray"
    /\ Kind(ret) # "throw"
    /\ before.init
    /\ getNodeType(before.buf, 0) = TypeOBJECT
    /\ hasChildren(before.buf, 0)
    /\ before.len > NodeSIZE
    /\ has(before, ka, 0) = Bool(TRUE)
    /\ has(Cur, ka, 0) = Bool(FALSE)
    /\ buflen = NodeSIZE

ReadOps == {"get", "getAt", "has", "size", "getType", "keys", "values", "entries", "toJSON"}

\* C21: get, getAt, has, size, getType, keys, values, entries and toJSON leave
\* the buffer bytes, the used length, the capacity and the root generation
\* as they were.
C21_ReadFrame ==
    last.op \in ReadOps
    => /\ buffer = before.buf
       /\ buflen = before.len
       /\ Len(buffer) = Len(before.buf)
       /\ getNodeGeneration(buffer, 0) = getNodeGeneration(before.buf, 0)
       /\ initialized = before.init

\* toJSON() returned the object of a tree that had split, one value nested
C21_ReadSplitTree ==
    /\ last.op = "toJSON"
    /\ Kind(ret) = "obj"
    /\ hasChildren(buffer, 0)
    /\ built > KEY_COUNT_MAX
    /\ Kind(ret[2][kc]) = "obj"
    /\ getNodeGeneration(buffer, 0) > 0

\* the signed value of the two most significant bytes of a 64-bit integer
Top16(bytes) ==
    IF bytes[8] >= 128 THEN bytes[7] + 256 * bytes[8] - 65536 ELSE bytes[7] + 256 * bytes[8]

\* whether the integer top * 2^48 + low, 0 <= low < 2^48, of these bytes
\* lies in [-(2^53 - 1), 2^53 - 1], 2^53 being 32 * 2^48
InSafeRange(bytes) ==
    \/ Top16(bytes) \in (0 - 31)..31
    \/ Top16(bytes) = 0 - 32 /\ \E i \in 1..6 : bytes[i] # 0

\* the number of this integer value
NumberOf(bytes) == IF Int64Fits(bytes) THEN Num(Int64Value(bytes)) ELSE Num64(bytes)

\* C22: a 64-bit integer written with setInt64 reads back as a number of the
\* same value when it lies in [-(2^53 - 1), 2^53 - 1] and as a BigInt of the
\* same value otherwise.
C22_Int64RoundTrip ==
    (last.op = "setInt64" /\ Kind(last.value) \in {"int", "int64", "bigint"} /\ SetDone)
    => get(Cur, last.key, last.offset) =
          (IF InSafeRange(toBigInt(last.value)) THEN NumberOf(toBigInt(last.value))
           ELSE BigInt(toBigInt(last.value)))

\* 2^53 - 1 came back as a number where 2^53 had been stored as a BigInt
C22_AtBoundary ==
    /\ last.op = "setInt64"
    /\ phase = "done"
    /\ last.value = Num64(MaxSafeInteger)
    /\ get(before, last.key, 0) = BigInt(<<0, 0, 0, 0, 0, 0, 32, 0>>)
    /\ get(Cur, last.key, 0) = Num64(MaxSafeInteger)

\* the tag size the thresholds give
TagSizeFor(n) == IF n <= 63 THEN 1 ELSE IF n <= 16383 THEN 2 ELSE IF n <= 4194303 THEN 3 ELSE 4

\* C23: getKeyTagSize(n) is 1 for n <= 63, 2 up to 16383, 3 up to 4194303 and
\* 4 above; the tag written has tag_size - 1 in its two low bits, and
\* decoding it recovers exactly n and the tag size.
C23_KeyTag ==
    LET n == last.value[2]
    IN  /\ last.op = "_writeKey"
           => /\ ret = Num(TagSizeFor(n))
              /\ buffer[1] % 4 = TagSizeFor(n) - 1
        /\ last.op = "_skipKey"
           => /\ (buffer[1] % 4) + 1 = TagSizeFor(n)
              /\ ret = Num(TagSizeFor(n) + n)

\* h <- (h * 33 + b) mod 2^32 on the four bytes of h, least significant first
Fold33(h, b) ==
    [i \in 1..4 |->
        CASE i = 1 -> (h[1] * 33 + b) % 256
          [] i = 2 -> (h[2] * 33 + ((h[1] * 33 + b) \div 256)) % 256
          [] i = 3 -> (h[3] * 33 + ((h[2] * 33 + ((h[1] * 33 + b) \div 256)) \div 256)) % 256
          [] i = 4 -> (h[4] * 33
                       + ((h[3] * 33 + ((h[2] * 33 + ((h[1] * 33 + b) \div 256)) \div 256))
                          \div 256)) % 256]

RECURSIVE FoldBytes(_, _)
FoldBytes(h, bytes) ==
    IF bytes = <<>> THEN h ELSE FoldBytes(Fold33(h, Head(bytes)), Tail(bytes))

\* the fold from 5381 = 21 * 256 + 5 over the UTF-8 bytes of a key, as halves
Utf8Fold(key) ==
    LET h == FoldBytes(<<5, 21, 0, 0>>, encodeString(key))
    IN  <<"uint32", h[3] + 256 * h[4], h[1] + 256 * h[2]>>

\* C24: djb2Hash(key) is the fold h <- (h * 33 + b) mod 2^32 from 5381 over the
\* bytes b of the UTF-8 encoding of key, non-ASCII keys included, and lies in
\* [0, 2^32 - 1].
C24_Djb2Fold ==
    last.op = "djb2Hash"
    => /\ ret = Utf8Fold(last.key)
       /\ ret[2] \in 0..65535
       /\ ret[3] \in 0..65535

NestedOps == {"setObject", "setArray"}

\* the last call was a setObject / setArray that returned an offset, made on
\* an initialized handle at a node that was an object
NestedSetDone ==
    /\ last.op \in NestedOps
    /\ Kind(ret) = "int"
    /\ before.init
    /\ getNodeType(before.buf, last.offset) = TypeOBJECT

\* the entry of the last call's key as it is now
EntryNow == findKey(buffer, last.offset, LastHash)

ValOffsetNow ==
    skipKey(buffer, getNodeKvOffset(buffer, EntryNow.nodeOffset, EntryNow.index))

\* C25: the value position of an entry whose value is a nested object or
\* array, reached from kv_ofs by skipping the key, is 4-byte aligned and is
\* the offset of the node setObject / setArray returned and initialized, also
\* when the insertion split nodes and when the used length was not a multiple
\* of 4 before the call.
C25_NestedPosition ==
    NestedSetDone
    => /\ EntryNow.found
       /\ ValOffsetNow % NodeALIGNMENT = 0
       /\ ValOffsetNow = ret[2]
       /\ getNodeType(buffer, ret[2]) = (IF last.op = "setObject" THEN TypeOBJECT ELSE TypeARRAY)
       /\ getNodeKeyCount(buffer, ret[2]) = 0

\* the last call was one mutation of the tree at offset 0 whose root was
\* full, so that _findOrInsertKey split it: the generation was bumped once,
\* before the split, and nothing after the split writes it
RootSplitDone ==
    /\ MutationDone
    /\ last.offset = 0
    /\ (last.op \in {"set", "appendValue"} => IsScalar(last.value))
    /\ getNodeKeyCount(before.buf, 0) = KEY_COUNT_MAX
    /\ ~hasChildren(before.buf, 0)
    /\ hasChildren(buffer, 0)

\* C26: a split of the root at offset 0 leaves the root's generation at the
\* value it had immediately before the split, the one the enclosing mutation
\* had bumped it to.
C26_SplitKeepsGeneration ==
    RootSplitDone =>
        getNodeGeneration(buffer, 0) = (getNodeGeneration(before.buf, 0) + 1) % 16777216

\* the set of the hashes stored in the tree at nodeOffset
HashSet(buf, nodeOffset) ==
    {treeHashes(buf, nodeOffset, TREE_HEIGHT_MAX)[i] :
        i \in 1..Len(treeHashes(buf, nodeOffset, TREE_HEIGHT_MAX))}

\* whether the hashes of the array at nodeOffset are 0 .. size - 1
Dense(buf, nodeOffset) == HashSet(buf, nodeOffset) = 0..(getNodeSize(buf, nodeOffset) - 1)

\* C27: after any sequence of appends to an array node, root or nested, with
\* elements of any supported type, nested objects then populated included,
\* the hashes stored in the array's tree are exactly 0 .. size - 1 and
\* getAt(i) is the i-th appended value for every i below the number of appends.
C27_DenseArray ==
    (phase = "build" /\ initialized /\ getNodeType(buffer, 0) = TypeARRAY)
    => /\ Dense(buffer, 0)
       /\ \A n \in NestedNodes(buffer, 0) : getNodeType(buffer, n) = TypeARRAY => Dense(buffer, n)
       /\ \A i \in 0..(built - 1) : getAt(Cur, i, 0) = Expect(ItemOrder(i + 1))

\* whether the payload at kv (key tag, key bytes and NUL for an object entry,
\* then the type tag and data, or the nested node) lies within [0, len)
PayloadInside(buf, len, kv, isObject) ==
    LET valOffset == IF isObject THEN skipKey(buf, kv) ELSE kv
    IN  /\ kv # OutOfRange
        /\ kv >= 0
        /\ valOffset < len
        /\ getValueSize(buf, valOffset) # OutOfRange
        /\ valOffset + getValueSize(buf, valOffset) <= len

\* whether that holds of every entry of the tree at nodeOffset
EntriesInside(buf, len, nodeOffset) ==
    \A i \in 1..Len(iterate(buf, nodeOffset)) :
        PayloadInside(buf, len, iterate(buf, nodeOffset)[i],
                      getNodeType(buf, nodeOffset) = TypeOBJECT)

\* C28: after every completed mutation, kv_ofs[i] of every slot i below the
\* key count of every node reachable from the root points to a payload that
\* lies within [0, used length), payloads written when a scalar is replaced
\* by a nested value and keys longer than a node included.
C28_PayloadInside ==
    (MutationDone /\ getNodeType(before.buf, 0) \in {TypeOBJECT, TypeARRAY})
    => /\ EntriesInside(buffer, buflen, 0)
       /\ \A n \in NestedNodes(buffer, 0) : EntriesInside(buffer, buflen, n)


\* C29: the space reserved by the one ensureSpace call at the start of a
\* mutation covers every byte the mutation writes: after every mutation the
\* used length is at most the capacity of the buffer, whatever nodes were
\* split on the way down and whatever alignment padding the splits added.
C29_ReservedCovers ==
    (/\ last.op \in MutationOps
     /\ before.init
     /\ before.len <= Len(before.buf)
     /\ getNodeType(before.buf, last.offset)
          = (IF last.op = "appendValue" THEN TypeARRAY ELSE TypeOBJECT))
    => /\ ret # Throw("RangeError")
       /\ buflen <= Len(buffer)


\* whether the in-order walk of the B-tree at nodeOffset meets strictly
\* ascending hashes (each node's hashes then ascend, subtree i lies below
\* hash i and the rightmost subtree above the last hash)
InOrderAscending(buf, nodeOffset) ==
    \A i \in 1..(Len(treeHashes(buf, nodeOffset, TREE_HEIGHT_MAX)) - 1) :
        treeHashes(buf, nodeOffset, TREE_HEIGHT_MAX)[i]
            < treeHashes(buf, nodeOffset, TREE_HEIGHT_MAX)[i + 1]

\* C30: after any sequence of sets and appends whose hashes are pairwise
\* distinct (each set with a key not set before), the in-order walk of the
\* root's tree, and of the tree of every nested object or array, yields
\* strictly ascending hashes: the hashes of every node ascend strictly,
\* child subtree i holds hashes below hash i and the rightmost subtree
\* hashes above the last.
C30_HashOrder ==
    initialized
    => /\ InOrderAscending(buffer, 0)
       /\ \A n \in NestedNodes(buffer, 0) : InOrderAscending(buffer, n)

\* a low key was set when the root was a full leaf holding higher hashes:
\* the root was split and the new hash went below hashes already there
C30_LeftSplit ==
    /\ last.op = "set"
    /\ last.key \in {KeyOrder[i] : i \in 1..MaxLowKeys}
    /\ getNodeKeyCount(before.buf, 0) = KEY_COUNT_MAX
    /\ ~hasChildren(before.buf, 0)
    /\ hasChildren(buffer, 0)
    /\ LastHash < treeHashes(before.buf, 0, TREE_HEIGHT_MAX)[KEY_COUNT_MAX]
    /\ Len(treeHashes(buffer, 0, TREE_HEIGHT_MAX)) = KEY_COUNT_MAX + 1

\* the nodes of the B-tree at nodeOffset with their depths, the root at
\* depth 0, down to the given number of levels
RECURSIVE treeNodes(_, _, _, _)
treeNodes(buf, nodeOffset, depth, levels) ==
    IF levels = 0 \/ getNodeKeyCount(buf, nodeOffset) = OutOfRange THEN {}
    ELSE {<<nodeOffset, depth>>}
         \cup (IF hasChildren(buf, nodeOffset)
               THEN UNION {treeNodes(buf, getNodeChildOffset(buf, nodeOffset, i),
                                     depth + 1, levels - 1) :
                              i \in 0..getNodeKeyCount(buf, nodeOffset)}
               ELSE {})

\* the key counts of a tree that has split: 1..7 in the root, 3..7 below it
KeyCountsInRange(buf, rootOffset) ==
    hasChildren(buf, rootOffset)
    => \A n \in treeNodes(buf, rootOffset, 0, TREE_HEIGHT_MAX) :
          /\ getNodeKeyCount(buf, n[1]) <= 7
          /\ getNodeKeyCount(buf, n[1]) >= (IF n[2] = 0 THEN 1 ELSE 3)

RECURSIVE treePairs(_, _, _), nodePairs(_, _, _, _, _)
treePairs(buf, nodeOffset, levels) ==
    IF levels = 0 \/ getNodeKeyCount(buf, nodeOffset) = OutOfRange THEN <<>>
    ELSE nodePairs(buf, nodeOffset, 0, getNodeKeyCount(buf, nodeOffset), levels)

nodePairs(buf, nodeOffset, i, keyCount, levels) ==
    (IF hasChildren(buf, nodeOffset)
     THEN treePairs(buf, getNodeChildOffset(buf, nodeOffset, i), levels - 1) ELSE <<>>)
    \o (IF i < keyCount
        THEN <<<<getNodeHash(buf, nodeOffset, i), getNodeKvOffset(buf, nodeOffset, i)>>>>
             \o nodePairs(buf, nodeOffset, i + 1, keyCount, levels)
        ELSE <<>>)

\* the last step was a call of _splitNode that returned
SplitDone == last.op = "splitNode" /\ Kind(ret) # "throw"

\* the parent the split was called with, and the index in it
SplitParent == last.value[2][1][2]
SplitIndex == last.value[2][2][2]

\* after the split: the node that received the median, the node that holds
\* the lower half (for a root split the copy of the old root, child 0 of the
\* new root) and the new sibling
MedianNode == IF SplitParent = NoParent THEN 0 ELSE SplitParent
LowerNode == IF SplitParent = NoParent THEN getNodeChildOffset(buffer, 0, 0) ELSE last.offset
SiblingNode == getNodeChildOffset(buffer, MedianNode, SplitIndex + 1)

\* slot i of node a in buffer x is slot j of node b in buffer y
SameSlot(x, a, i, y, b, j) ==
    /\ getNodeHash(x, a, i) = getNodeHash(y, b, j)
    /\ getNodeKvOffset(x, a, i) = getNodeKvOffset(y, b, j)

\* C32: a split, of the root or of a node below it, preserves the (hash,
\* kv_ofs) entries of the tree: the median entry moves to the parent, the
\* three lower entries and their four children stay in the split node (for
\* the root, in its copy under the new root), the three higher entries and
\* their four children move to the new sibling; the split changes no get
\* result and no size.
C32_SplitPreserves ==
    SplitDone
    => /\ treePairs(buffer, 0, TREE_HEIGHT_MAX) = treePairs(before.buf, 0, TREE_HEIGHT_MAX)
       /\ SameSlot(buffer, MedianNode, SplitIndex, before.buf, last.offset, 3)
       /\ getNodeKeyCount(buffer, LowerNode) = 3
       /\ getNodeKeyCount(buffer, SiblingNode) = 3
       /\ \A j \in 0..2 : /\ SameSlot(buffer, LowerNode, j, before.buf, last.offset, j)
                          /\ SameSlot(buffer, SiblingNode, j, before.buf, last.offset, j + 4)
       /\ \A j \in 0..3 :
             /\ getNodeChildOffset(buffer, LowerNode, j)
                  = getNodeChildOffset(before.buf, last.offset, j)
             /\ getNodeChildOffset(buffer, SiblingNode, j)
                  = getNodeChildOffset(before.buf, last.offset, j + 4)
       /\ \A i \in 1..Len(KeyOrder) : get(Cur, KeyOrder[i], 0) = get(before, KeyOrder[i], 0)
       /\ \A i \in 0..MaxItems : getAt(Cur, i, 0) = getAt(before, i, 0)
       /\ size(Cur, 0) = size(before, 0)

\* a full node below the root was split under a parent that held keys to
\* its right, and the object had all the keys set so far
C32_InteriorSplit ==
    /\ SplitDone
    /\ SplitParent # NoParent
    /\ SplitIndex < getNodeKeyCount(before.buf, SplitParent)
    /\ Len(treePairs(buffer, 0, TREE_HEIGHT_MAX)) = built

\* the handle as the last mutation's descent found it: the bytes before the
\* call, in the capacity its _ensureSpace left
DescentStart ==
    [before EXCEPT !.buf = [i \in 1..Len(buffer) |-> IF i <= Len(@) THEN @[i] ELSE 0]]

\* the node the loop of _findOrInsertKey goes on with after its split check
nodeAfterSplit(s, wasSplit, rootOffset, hash, nodeOffset, parent, parentIndex) ==
    IF ~wasSplit THEN nodeOffset
    ELSE IF parent = NoParent THEN rootOffset
    ELSE IF hash > getNodeHash(s.buf, parent, parentIndex)
         THEN getNodeChildOffset(s.buf, parent, parentIndex + 1)
    ELSE nodeOffset

\* the key counts the parents hold at the calls of _splitNode that the
\* descent of _findOrInsertKey for hash makes for nodes below the root
RECURSIVE splitParentCounts(_, _, _, _, _, _, _), splitParentsBelow(_, _, _, _, _)
splitParentCounts(s, rootOffset, hash, nodeOffset, parent, parentIndex, nodeWalks) ==
    (IF getNodeKeyCount(s.buf, nodeOffset) = KEY_COUNT_MAX /\ parent # NoParent
     THEN {getNodeKeyCount(s.buf, parent)} ELSE {})
    \cup splitParentsBelow(
             splitIfFull(s, rootOffset, nodeOffset, parent, parentIndex), rootOffset, hash,
             nodeAfterSplit(splitIfFull(s, rootOffset, nodeOffset, parent, parentIndex),
                            getNodeKeyCount(s.buf, nodeOffset) = KEY_COUNT_MAX,
                            rootOffset, hash, nodeOffset, parent, parentIndex),
             nodeWalks)

splitParentsBelow(s, rootOffset, hash, nodeOffset, nodeWalks) ==
    LET keyCount == getNodeKeyCount(s.buf, nodeOffset)
        i == scanNode(s.buf, nodeOffset, keyCount, hash, 0)
    IN  IF ~OK(s) \/ keyCount = OutOfRange THEN {}
        ELSE IF i < keyCount /\ getNodeHash(s.buf, nodeOffset, i) = hash THEN {}
        ELSE IF hasChildren(s.buf, nodeOffset) /\ nodeWalks + 1 <= TREE_HEIGHT_MAX
             THEN splitParentCounts(s, rootOffset, hash,
                                    getNodeChildOffset(s.buf, nodeOffset, i), nodeOffset, i,
                                    nodeWalks + 1)
        ELSE {}

LastSplitParents == splitParentCounts(DescentStart, 0, LastHash, 0, NoParent, 0, 0)

\* C33: whenever a node below the root is split during the descent of an
\* insert, its parent holds fewer than 7 keys at that moment.
C33_ParentNotFull ==
    (last.op = "set" /\ before.init) => \A c \in LastSplitParents : c < 7

\* a set found the root full and a full node on its way below it: the root
\* was split, then that node
C33_RootThenInterior ==
    /\ last.op = "set"
    /\ before.init
    /\ getNodeKeyCount(before.buf, 0) = 7
    /\ hasChildren(before.buf, 0)
    /\ LastSplitParents # {}

\* C34: across any sequence of mutations the root stays at offset 0 with the
\* type given at the last initialization, and a root split preserves the
\* root's size counter: getType() and size() return the same values before
\* and after a root split.
C34_RootStays ==
    /\ (last.op = "initObject" /\ Kind(ret) # "throw") => getType(Cur) = Num(TypeOBJECT)
    /\ (last.op = "initArray" /\ Kind(ret) # "throw") => getType(Cur) = Num(TypeARRAY)
    /\ (last.op \in MutationOps /\ before.init) => getType(Cur) = getType(before)
    /\ (SplitDone /\ SplitParent = NoParent)
       => /\ getType(Cur) = getType(before)
          /\ size(Cur, 0) = size(before, 0)
          /\ getNodeChildOffset(buffer, 0, 0) # 0

\* the full root of an array was split
C34_ArrayRootSplit ==
    /\ SplitDone
    /\ SplitParent = NoParent
    /\ getType(before) = Num(TypeARRAY)
    /\ getNodeKeyCount(before.buf, 0) = 7
    /\ size(before, 0) # Num(0)

LookupOps == {"get", "has", "getAt"}

\* C35: a lookup (get, has, getAt) on any buffer, imported ones whose child
\* offsets form a cycle included, ends in one of three ways: it returns the
\* entry it found, it returns absent, or it raises bad_message; on a cycle it
\* raises bad_message.
C35_LookupEnds ==
    (last.op \in LookupOps /\ before.init)
    => /\ Kind(ret) # "throw" \/ ret = Throw("EBADMSG")
       /\ (getNodeChildOffset(buffer, 0, 0) = NodeSIZE /\ getNodeKeyCount(buffer, 0) = 0)
          => ret = Throw("EBADMSG")

\* how many of the eight child offsets of a node are not zero
ChildCount(buf, nodeOffset) ==
    Cardinality({i \in 0..KEY_COUNT_MAX : getNodeChildOffset(buf, nodeOffset, i) # 0})

\* the depths at which the tree at rootOffset has leaves
LeafDepths(buf, rootOffset) ==
    {n[2] : n \in {m \in treeNodes(buf, rootOffset, 0, TREE_HEIGHT_MAX + 1) :
                      ~hasChildren(buf, m[1])}}

observed(s) == <<toJSON(s), size(s, 0), s.len>>

\* C37: a handle made by fromBuffer and the handle whose bytes it was made
\* from are independent: a mutation of either leaves toJSON(), size() and
\* the used length of the other as they were.
C37_Independent ==
    [][other.init =>
          /\ phase' = "other" => observed(Cur') = observed(Cur)
          /\ phase' # "other" => observed(OtherHandle') = observed(OtherHandle)]_vars

\* a set on the first handle that found room in its array, so that a view of
\* that array would have shown it, and now the two handles differ
C37_SenderSetInPlace ==
    /\ other.init
    /\ phase = "done"
    /\ last.op = "set"
    /\ ret = This
    /\ Len(buffer) = Len(before.buf)
    /\ toJSON(Cur) # toJSON(before)
    /\ toJSON(OtherHandle) = toJSON(before)

\* C38: every tree the engine builds by init and sets or appends has a
\* height of at most 9, and no lookup or insert on it raises the
\* tree-height bad_message error.
C38_HeightBound ==
    phase \in {"tall", "read"} => Len(spine) - 1 <= 9 /\ ret # Throw("EBADMSG")

====
